---- MODULE Spec2Model ----
(***************************************************************************)
(* Model of the Dickies dashboard ETL (src/etl_comprehensive_v5.py), of    *)
(* the size-level enrichment (src/velocity_trends_integration.py), of the  *)
(* narrative generator (src/austin_insights.py, read by an interpreter     *)
(* that accepts the nested quotes of its line 555, Python 3.12 or later)   *)
(* and of the auxiliary JSON loaders of the renderer                       *)
(* (src/html_updater_v5.py).                                               *)
(*                                                                         *)
(* Numbers.  Every measure is a fixed-point integer counted in ticks of    *)
(* 0.00005, so that the code's epsilon 0.0001 is Eps = 2 ticks.  A ratio   *)
(* the code rounds to n decimals is kept as the integer ratio * 10^n       *)
(* (wos: tenths; the three share fields: millionths).  A ratio the code    *)
(* does not round is kept as an exact fraction <<num, den>>.               *)
(*                                                                         *)
(* Cells.  A spreadsheet cell is <<>> when it is missing (NaN) and <<v>>   *)
(* when it holds the number v; <<"str", v>> is the string that spells the  *)
(* number v and <<"text", 0>> a string that spells no number.              *)
(*                                                                         *)
(* Source layout.  etl_comprehensive_v5.py is read with its methods at     *)
(* class level: lines 153-176 are the body of load_ladder_data, lines      *)
(* 190-202 the method calculate_tiers, lines 601-602 part of run()'s try.  *)
(***************************************************************************)
EXTENDS Integers, Sequences, FiniteSets, TLC

VARIABLES
    posFile,           \* the POS workbook named by self.pos_file
    pos_lw,            \* self.pos_lw
    pos_ytd,           \* self.pos_ytd
    ladder,            \* self.ladder
    pos_ytd_df,        \* self.pos_ytd_df (set by load_pos_data)
    velocity_raw,      \* self.velocity_raw (set by load_ladder_data)
    tier_assignments,  \* self.tier_assignments
    sku_master,        \* self.sku_master
    fineline_rollup,   \* self.fineline_rollup
    weekly_summary,    \* self.weekly_summary
    seasonal_risk,     \* self.seasonal_risk
    action_items,      \* self.action_items
    metrics,           \* self.metrics
    meta,              \* self.meta
    disk,              \* the JSON files of self.output_dir
    written,           \* the artifacts this run() has written
    pc,                \* position of the caller / of run()
    called,            \* the method the last step called
    err,               \* the exception the last call raised
    result,            \* what run() returned
    velocity_df,       \* the rows of the velocity sheet given to map_velocity_to_styles
    style_map,         \* the style map map_velocity_to_styles returned
    cell,              \* the argument x of _safe_float / _safe_int
    cell_default,      \* their argument default
    coerced,           \* what they returned, <<>> before the call
    current_week_df,   \* generate_weekly_insights' argument current_week_df
    ly_week_df,        \* its argument ly_week_df
    week_number,       \* its argument week_number
    insights           \* the dict it returned, None before the call

vars == <<posFile, pos_lw, pos_ytd, ladder, pos_ytd_df, velocity_raw,
          tier_assignments, sku_master, fineline_rollup, weekly_summary,
          seasonal_risk, action_items, metrics, meta, disk, written, pc,
          called, err, result, velocity_df, style_map, cell, cell_default,
          coerced, current_week_df, ly_week_df, week_number, insights>>

insightVars == <<current_week_df, ly_week_df, week_number, insights>>

-----------------------------------------------------------------------------
(* Bounds of the model *)

MaxRows == 3      \* rows of a POS table
MaxVal == 3       \* largest measure of one POS row, in ticks
MaxSizes == 4     \* rows of a velocity sheet

(* Program constants *)

Eps == 2          \* 0.0001, in ticks of 0.00005
Million == 1000000
YoyPctScale == 100

None == [none |-> TRUE]    \* Python's None
NaN == <<>>       \* a missing cell
NaNKey == "nan"   \* a missing grouping key

KeyCol == "WD Style/Color"
FinelineCol == "Fineline"
SalesUnitsLW == "Sales Units LW"
SalesUnitsLWLY == "Sales Units LWLY"
SalesRetailLW == "Sales Retail $ LW"
SalesRetailLWLY == "Sales Retail $ LWLY"
OnHandUnitsLW == "Store On Hand Units LW"
OnHandRetailLW == "Store On Hand Retail LW"
SalesUnitsYTD == "Sales Units 2025YTD"
SalesRetailYTD == "Sales Retail $ 2025YTD"

LwMeasureCols == <<SalesUnitsLW, SalesUnitsLWLY, SalesRetailLW, SalesRetailLWLY,
                   OnHandUnitsLW, OnHandRetailLW>>
FinelineRequiredCols == <<FinelineCol, SalesUnitsLW, SalesUnitsLWLY, SalesRetailLW,
                          SalesRetailLWLY, OnHandUnitsLW, OnHandRetailLW,
                          SalesUnitsYTD, SalesRetailYTD>>
SummaryCols == <<SalesUnitsLW, SalesUnitsLWLY, SalesRetailLW, SalesRetailLWLY,
                 OnHandUnitsLW, OnHandRetailLW>>
MeasureCols == {SalesUnitsLW, SalesUnitsLWLY, SalesRetailLW, SalesRetailLWLY,
                OnHandUnitsLW, OnHandRetailLW, SalesUnitsYTD, SalesRetailYTD}
PosCols == {KeyCol, FinelineCol} \cup MeasureCols
LadderCols == {KeyCol, FinelineCol}

Range(s) == {s[i] : i \in 1..Len(s)}

-----------------------------------------------------------------------------
(* Scalars *)

IsNa(x) == x = NaN

Text == <<"text", 0>>        \* a string such as 'abc'
NumStr(v) == <<"str", v>>    \* the string that spells v, '1.5' for 1.5
IsNumber(x) == Len(x) = 1
IsNumStr(x) == Len(x) = 2 /\ x[1] = "str"

TicksPerUnit == 10000 * Eps  \* 1.0 in ticks

\* int() of a float: the whole part, towards zero
Trunc(v) ==
    IF v >= 0 THEN TicksPerUnit * (v \div TicksPerUnit)
    ELSE -(TicksPerUnit * ((-v) \div TicksPerUnit))

\* _safe_float (lines 61-68): default for a missing cell, float(x) for a
\* number or a string that spells one, default when float(x) raises
_safe_float(x, default) ==
    IF IsNa(x) THEN default
    ELSE IF IsNumber(x) THEN x[1]
    ELSE IF IsNumStr(x) THEN x[2]
    ELSE default

\* _safe_int (lines 70-77): int(x) truncates a float; int() of a string raises
\* unless the string spells a whole number, and the default is returned
_safe_int(x, default) ==
    IF IsNa(x) THEN default
    ELSE IF IsNumber(x) THEN Trunc(x[1])
    ELSE IF IsNumStr(x) /\ x[2] % TicksPerUnit = 0 THEN x[2]
    ELSE default

Abs(n) == IF n < 0 THEN -n ELSE n

\* the integer nearest to n / d (d > 0), a tie going to the even neighbour:
\* Python's round() of a quotient
RoundDivPos(n, d) ==
    LET q == n \div d
        r == n % d
    IN  IF 2 * r < d THEN q
        ELSE IF 2 * r > d THEN q + 1
        ELSE IF q % 2 = 0 THEN q ELSE q + 1

RoundDiv(n, d) == IF n >= 0 THEN RoundDivPos(n, d) ELSE -RoundDivPos(-n, d)

Max(a, b) == IF a >= b THEN a ELSE b

\* pandas Series.sum(): missing cells are skipped, an empty sum is 0
RECURSIVE SumCells(_)
SumCells(cells) ==
    IF cells = <<>> THEN 0
    ELSE _safe_float(Head(cells), 0) + SumCells(Tail(cells))

RECURSIVE SumInts(_)
SumInts(s) == IF s = <<>> THEN 0 ELSE Head(s) + SumInts(Tail(s))

Column(rows, c) == [i \in 1..Len(rows) |-> rows[i][c]]

-----------------------------------------------------------------------------
(* Tables: [cols |-> the column names present, rows |-> the rows in order]. *)
(* A row maps every column name to its cell; a cell of an absent column is  *)
(* never read.                                                              *)

KeySeq == <<"K1", "K2", "K3">>
Keys == Range(KeySeq)

FinelineSeq == <<"F1", "F2">>

NoErr == [kind |-> "none", names |-> {}]
Raised(kind, names) == [kind |-> kind, names |-> names]

\* the values of `ranked` that occur in column c, ascending: the groups of
\* DataFrame.groupby(c), which sorts its keys and drops the missing ones
RECURSIVE GroupKeysFrom(_, _, _)
GroupKeysFrom(rows, c, ranked) ==
    IF ranked = <<>> THEN <<>>
    ELSE (IF \E i \in 1..Len(rows) : rows[i][c] = Head(ranked)
          THEN <<Head(ranked)>> ELSE <<>>)
         \o GroupKeysFrom(rows, c, Tail(ranked))

\* an aggregation that keeps the group's first row instead of summing
GroupSum_FirstRow(rows, c, k, m) ==
    LET g == SelectSeq(rows, LAMBDA r : r[c] = k)
    IN  IF g = <<>> THEN 0 ELSE _safe_float(g[1][m], 0)

\* groupby(c)[m].sum() for the group k
GroupSum(rows, c, k, m) ==
    SumCells(Column(SelectSeq(rows, LAMBDA r : r[c] = k), m))

\* the cell a left merge brings in for key k: the group's sum when the right
\* frame has the group, a missing cell when it has not
MergedSum(rows, c, k, m) ==
    IF \E i \in 1..Len(rows) : rows[i][c] = k
    THEN <<GroupSum(rows, c, k, m)>>
    ELSE NaN

\* lw_group, the last-week aggregation at SKU level (lines 232-246), merged
\* with ytd and ytd_units (lines 222-229, 249-250)
SkuFrame(lw, ytd) ==
    LET keys == GroupKeysFrom(lw.rows, KeyCol, KeySeq)
    IN  [i \in 1..Len(keys) |->
            LET k == keys[i] IN
            [sku |-> k,
             sales_units_lw |-> <<GroupSum(lw.rows, KeyCol, k, SalesUnitsLW)>>,
             sales_units_lwly |-> <<GroupSum(lw.rows, KeyCol, k, SalesUnitsLWLY)>>,
             sales_dollars_lw |-> <<GroupSum(lw.rows, KeyCol, k, SalesRetailLW)>>,
             sales_dollars_lwly |-> <<GroupSum(lw.rows, KeyCol, k, SalesRetailLWLY)>>,
             inventory_units_lw |-> <<GroupSum(lw.rows, KeyCol, k, OnHandUnitsLW)>>,
             inventory_dollars_lw |-> <<GroupSum(lw.rows, KeyCol, k, OnHandRetailLW)>>,
             sales_dollars_ytd |-> MergedSum(ytd.rows, KeyCol, k, SalesRetailYTD),
             sales_units_ytd |-> MergedSum(ytd.rows, KeyCol, k, SalesUnitsYTD)]]

\* sku_df.merge(ladder_subset, on='WD Style/Color', how='left') (lines 264-265):
\* one output row per matching ladder row, one row with a missing Fineline
\* when no ladder row matches; '' stands for a field the row does not have
RECURSIVE MergeLadder(_, _)
MergeLadder(frame, lad) ==
    IF frame = <<>> THEN <<>>
    ELSE LET r == Head(frame)
             hits == SelectSeq(lad.rows, LAMBDA l : l[KeyCol] = r.sku)
             With(f) == [sku |-> r.sku,
                         sales_units_lw |-> r.sales_units_lw,
                         sales_units_lwly |-> r.sales_units_lwly,
                         sales_dollars_lw |-> r.sales_dollars_lw,
                         sales_dollars_lwly |-> r.sales_dollars_lwly,
                         inventory_units_lw |-> r.inventory_units_lw,
                         inventory_dollars_lw |-> r.inventory_dollars_lw,
                         sales_dollars_ytd |-> r.sales_dollars_ytd,
                         sales_units_ytd |-> r.sales_units_ytd,
                         Fineline |-> f]
         IN  (IF hits = <<>> THEN <<With(NaNKey)>>
              ELSE [j \in 1..Len(hits) |->
                       With(IF FinelineCol \in lad.cols
                            THEN hits[j][FinelineCol] ELSE "")])
             \o MergeLadder(Tail(frame), lad)

-----------------------------------------------------------------------------
(* build_sku_master *)

\* a tier lookup without the final default
_lookup_tier_NoDefault(sku, tiers) ==
    IF sku \in tiers["A"] THEN "A"
    ELSE IF sku \in tiers["B"] THEN "B"
    ELSE IF sku \in tiers["C"] THEN "C"
    ELSE "None"

\* _lookup_tier (lines 268-275)
_lookup_tier(sku, tiers) ==
    IF sku \in tiers["A"] THEN "A"
    ELSE IF sku \in tiers["B"] THEN "B"
    ELSE IF sku \in tiers["C"] THEN "C"
    ELSE "C"

\* sku_df['tier'] = sku_df['WD Style/Color'].apply(_lookup_tier) (line 277)
WithTier(frame, tiers) ==
    [i \in 1..Len(frame) |->
        [row |-> frame[i], tier |-> _lookup_tier(frame[i].sku, tiers)]]

\* sort_values(by='sales_dollars_ytd', ascending=False) (line 290): a must come
\* before b when a's value is larger, and a missing value comes last
MustPrecede(a, b) ==
    \/ ~IsNa(a.row.sales_dollars_ytd) /\ IsNa(b.row.sales_dollars_ytd)
    \/ /\ ~IsNa(a.row.sales_dollars_ytd) /\ ~IsNa(b.row.sales_dollars_ytd)
       /\ a.row.sales_dollars_ytd[1] > b.row.sales_dollars_ytd[1]

\* every order sort_values may return: rows of equal value come in an order
\* the (unstable) default sort kind does not fix
RECURSIVE SortOrders(_, _)
SortOrders(frame, S) ==
    IF S = {} THEN {<<>>}
    ELSE UNION {{<<frame[i]>> \o t : t \in SortOrders(frame, S \ {i})} :
                i \in {i \in S : \A j \in S : ~MustPrecede(frame[j], frame[i])}}

\* a weeks-of-supply that divides without looking at the sign of the sales
WeeksOfSupply_NoZeroGuard(inventory_units, sales_units) ==
    <<inventory_units, Max(sales_units, Eps)>>

\* weeks of supply as an exact fraction (lines 316-319, 434-437, 486-489)
WeeksOfSupply(inventory_units, sales_units) ==
    IF sales_units > 0
    THEN <<inventory_units, Max(sales_units, Eps)>>
    ELSE <<0, 1>>

\* a share reported in percent instead of as a fraction of one
Share_AsPercent(part, whole) ==
    IF whole > 0 /\ part > 0 THEN <<100 * part, whole>> ELSE <<0, 1>>

\* share of total (lines 322-325, 331-334)
Share(part, whole) ==
    IF whole > 0 /\ part > 0 THEN <<part, whole>> ELSE <<0, 1>>

\* a cumulative share that divides by max(total, 1) instead of testing the total
CumulativeShare_ClampedTotal(cumulative, whole) ==
    <<cumulative, Max(whole, 1)>>

\* cumulative share (line 328)
CumulativeShare(cumulative, whole) ==
    IF whole > 0 THEN <<cumulative, whole>> ELSE <<0, 1>>

\* round(x, 1) in tenths and round(x, 6) in millionths (lines 369, 373-375)
Round1(frac) == RoundDiv(10 * frac[1], frac[2])
Round6(frac) == RoundDiv(Million * frac[1], frac[2])

\* sku_df[c].fillna(0).sum() (lines 282-283, 286-287)
FrameTotal(cells) == SumCells(cells)

\* the loop of lines 294-378 over the sorted frame
SkuRecords(sorted) ==
    LET total_sales_ytd == FrameTotal([i \in 1..Len(sorted) |-> sorted[i].row.sales_dollars_ytd])
        total_inventory_lw ==
            FrameTotal([i \in 1..Len(sorted) |-> sorted[i].row.inventory_dollars_lw])
    IN  [i \in 1..Len(sorted) |->
            LET row == sorted[i].row
                sales_dollars_ytd == _safe_float(row.sales_dollars_ytd, 0)
                sales_units_lw == _safe_float(row.sales_units_lw, 0)
                inventory_units_lw == _safe_float(row.inventory_units_lw, 0)
                inventory_dollars_lw == _safe_float(row.inventory_dollars_lw, 0)
                cumulative_sales ==
                    SumCells([j \in 1..i |-> sorted[j].row.sales_dollars_ytd])
            IN  [sku |-> row.sku,
                 fineline |-> row.Fineline,
                 sales_units_ytd |-> _safe_float(row.sales_units_ytd, 0),
                 sales_dollars_ytd |-> sales_dollars_ytd,
                 sales_units_lw |-> sales_units_lw,
                 sales_units_lwly |-> _safe_float(row.sales_units_lwly, 0),
                 sales_dollars_lw |-> _safe_float(row.sales_dollars_lw, 0),
                 sales_dollars_lwly |-> _safe_float(row.sales_dollars_lwly, 0),
                 inventory_units_lw |-> inventory_units_lw,
                 inventory_dollars_lw |-> inventory_dollars_lw,
                 wos |-> Round1(WeeksOfSupply(inventory_units_lw, sales_units_lw)),
                 tier |-> sorted[i].tier,
                 sales_pct_of_total |->
                     Round6(Share(sales_dollars_ytd, total_sales_ytd)),
                 cumulative_sales_pct |->
                     Round6(CumulativeShare(cumulative_sales, total_sales_ytd)),
                 inventory_pct_of_total |->
                     Round6(Share(inventory_dollars_lw, total_inventory_lw))]]

\* the exception build_sku_master raises on its inputs, NoErr when none:
\* the guard of lines 218-219, then the KeyError of the first groupby
\* selection or merge that names an absent column
SkuMasterError(lw, ytd, lad) ==
    IF lw = None \/ lad = None THEN Raised("RuntimeError", {})
    ELSE IF ytd = None THEN Raised("AttributeError", {})
    ELSE IF KeyCol \notin ytd.cols THEN Raised("KeyError", {KeyCol})
    ELSE IF SalesRetailYTD \notin ytd.cols THEN Raised("KeyError", {SalesRetailYTD})
    ELSE IF SalesUnitsYTD \notin ytd.cols THEN Raised("KeyError", {SalesUnitsYTD})
    ELSE IF KeyCol \notin lw.cols THEN Raised("KeyError", {KeyCol})
    ELSE IF Range(LwMeasureCols) \ lw.cols # {}
         THEN Raised("KeyError", Range(LwMeasureCols) \ lw.cols)
    ELSE IF KeyCol \notin lad.cols THEN Raised("KeyError", {KeyCol})
    ELSE NoErr

\* every sku_master list build_sku_master may produce
SkuMasterResults(lw, ytd, lad, tiers) ==
    LET frame == WithTier(MergeLadder(SkuFrame(lw, ytd), lad), tiers)
    IN  {SkuRecords(sorted) : sorted \in SortOrders(frame, DOMAIN frame)}

build_sku_master ==
    LET e == SkuMasterError(pos_lw, pos_ytd, ladder)
    IN  IF e # NoErr
        THEN err' = e /\ sku_master' = sku_master
        ELSE /\ err' = NoErr
             /\ \E recs \in SkuMasterResults(pos_lw, pos_ytd, ladder, tier_assignments) :
                    sku_master' = recs

-----------------------------------------------------------------------------
(* build_fineline_rollup *)

\* the first name of `required` that is not a column, <<>> when all are
RECURSIVE FirstMissing(_, _)
FirstMissing(required, cols) ==
    IF required = <<>> THEN <<>>
    ELSE IF Head(required) \notin cols THEN <<Head(required)>>
    ELSE FirstMissing(Tail(required), cols)

\* a fineline rollup that does not check its columns
FinelineError_NoCheck(lw) ==
    IF lw = None THEN Raised("AttributeError", {}) ELSE NoErr

\* lines 393-409: copying a None frame fails, then the required-column check
FinelineError(lw) ==
    IF lw = None THEN Raised("AttributeError", {})
    ELSE IF FirstMissing(FinelineRequiredCols, lw.cols) # <<>>
         THEN Raised("ValueError", Range(FirstMissing(FinelineRequiredCols, lw.cols)))
    ELSE NoErr

\* lines 411-456
FinelineRecords(lw) ==
    LET keys == GroupKeysFrom(lw.rows, FinelineCol, FinelineSeq)
    IN  [i \in 1..Len(keys) |->
            LET f == keys[i]
                sales_units_lw == GroupSum(lw.rows, FinelineCol, f, SalesUnitsLW)
                inventory_units_lw == GroupSum(lw.rows, FinelineCol, f, OnHandUnitsLW)
            IN  [fineline |-> f,
                 sales_units_lw |-> sales_units_lw,
                 sales_units_lwly |-> GroupSum(lw.rows, FinelineCol, f, SalesUnitsLWLY),
                 sales_dollars_lw |-> GroupSum(lw.rows, FinelineCol, f, SalesRetailLW),
                 sales_dollars_lwly |-> GroupSum(lw.rows, FinelineCol, f, SalesRetailLWLY),
                 inventory_units_lw |-> inventory_units_lw,
                 inventory_dollars_lw |-> GroupSum(lw.rows, FinelineCol, f, OnHandRetailLW),
                 sales_units_ytd |-> GroupSum(lw.rows, FinelineCol, f, SalesUnitsYTD),
                 sales_dollars_ytd |-> GroupSum(lw.rows, FinelineCol, f, SalesRetailYTD),
                 wos |-> Round1(WeeksOfSupply(inventory_units_lw, sales_units_lw))]]

build_fineline_rollup ==
    LET e == FinelineError(pos_lw)
    IN  IF e # NoErr
        THEN err' = e /\ fineline_rollup' = fineline_rollup
        ELSE err' = NoErr /\ fineline_rollup' = FinelineRecords(pos_lw)

-----------------------------------------------------------------------------
(* build_weekly_sales_summary *)

\* lines 469-476: df[c] raises KeyError for the first absent column read
SummaryError(lw) ==
    IF lw = None THEN Raised("AttributeError", {})
    ELSE IF FirstMissing(SummaryCols, lw.cols) # <<>>
         THEN Raised("KeyError", Range(FirstMissing(SummaryCols, lw.cols)))
    ELSE NoErr

\* lines 482-483: percent delta against the year-ago total, an exact fraction
PctDelta(delta, prior) ==
    IF prior > 0 THEN <<delta * YoyPctScale, prior>> ELSE <<0, 1>>

\* DashboardInsightsGenerator._yoy_pct (austin_insights.py lines 363-367)
_yoy_pct(current, ly) ==
    IF ly = 0 THEN <<0, 1>> ELSE <<(current - ly) * YoyPctScale, ly>>

\* lines 469-503
WeeklySummary(lw) ==
    LET total_sales_units_lw == SumCells(Column(lw.rows, SalesUnitsLW))
        total_sales_units_lwly == SumCells(Column(lw.rows, SalesUnitsLWLY))
        total_sales_dollars_lw == SumCells(Column(lw.rows, SalesRetailLW))
        total_sales_dollars_lwly == SumCells(Column(lw.rows, SalesRetailLWLY))
        total_inventory_units_lw == SumCells(Column(lw.rows, OnHandUnitsLW))
        total_inventory_dollars_lw == SumCells(Column(lw.rows, OnHandRetailLW))
        units_delta == total_sales_units_lw - total_sales_units_lwly
        dollars_delta == total_sales_dollars_lw - total_sales_dollars_lwly
    IN  [sales_units_lw |-> total_sales_units_lw,
         sales_units_lwly |-> total_sales_units_lwly,
         sales_dollars_lw |-> total_sales_dollars_lw,
         sales_dollars_lwly |-> total_sales_dollars_lwly,
         inventory_units_lw |-> total_inventory_units_lw,
         inventory_dollars_lw |-> total_inventory_dollars_lw,
         units_delta |-> units_delta,
         dollars_delta |-> dollars_delta,
         units_pct_delta |-> PctDelta(units_delta, total_sales_units_lwly),
         dollars_pct_delta |-> PctDelta(dollars_delta, total_sales_dollars_lwly),
         wos |-> WeeksOfSupply(total_inventory_units_lw, total_sales_units_lw)]

build_weekly_sales_summary ==
    LET e == SummaryError(pos_lw)
    IN  IF e # NoErr
        THEN err' = e /\ weekly_summary' = weekly_summary
        ELSE err' = NoErr /\ weekly_summary' = WeeklySummary(pos_lw)

-----------------------------------------------------------------------------
(* tiers, meta, auxiliary JSON *)

EmptyDict == [x \in {} |-> 0]    \* {}

\* d.setdefault(k, v) for each k of ks
SetDefaults(d, ks, v) ==
    [k \in DOMAIN d \cup ks |-> IF k \in DOMAIN d THEN d[k] ELSE v]

\* d.update(u)
Update(d, u) ==
    [k \in DOMAIN d \cup DOMAIN u |-> IF k \in DOMAIN u THEN u[k] ELSE d[k]]

\* calculate_tiers (lines 190-202): the stub only defaults the three counts
calculate_tiers ==
    /\ metrics' = SetDefaults(metrics, {"tier_a_count", "tier_b_count", "tier_c_count"}, 0)
    /\ err' = NoErr

\* calculate_summary_metrics (lines 537-560); avg_wos is a fraction of tenths
SummaryMetrics(tiers, skus) ==
    [tier_a_count |-> Cardinality(tiers["A"]),
     tier_b_count |-> Cardinality(tiers["B"]),
     tier_c_count |-> Cardinality(tiers["C"]),
     avg_wos |-> IF skus = <<>> THEN <<0, 1>>
                 ELSE <<SumInts([i \in 1..Len(skus) |-> skus[i].wos]), Len(skus)>>]

\* build_meta (lines 562-579)
build_meta ==
    /\ metrics' = Update(metrics, SummaryMetrics(tier_assignments, sku_master))
    /\ meta' = [metrics |-> metrics']
    /\ err' = NoErr

SeasonalRiskFile == "seasonal_risk.json"
ActionItemsFile == "action_items.json"
ArtifactSeq == <<"sku_master.json", "fineline_rollup.json", "weekly_sales_summary.json",
                 SeasonalRiskFile, ActionItemsFile, "meta.json">>
Artifacts == Range(ArtifactSeq)

Absent == "absent"        \* no such file
Corrupt == "corrupt"      \* a file json.load rejects, or a partly written one
EmptyList == "[]"         \* the empty list
StoredItems == "[item]"   \* the list a well-formed auxiliary file holds
Saved == "saved"          \* an artifact json.dump has written in full

\* html_updater_v5.load_action_items (lines 172-182): no file, a file json.load
\* rejects or a document without .get (a list) gives []; the "actions" of a
\* stored list are never read
load_action_items(content) ==
    IF content = Absent THEN EmptyList
    ELSE IF content = Corrupt THEN EmptyList
    ELSE EmptyList

\* html_updater_v5.load_seasonal_risk (lines 185-199): a stored list is returned
load_seasonal_risk(content) ==
    IF content = Absent THEN EmptyList
    ELSE IF content = Corrupt THEN EmptyList
    ELSE content

\* a loader that opens the files without testing that they exist
load_seasonal_risk_and_actions_Strict ==
    IF disk[SeasonalRiskFile] \in {Absent, Corrupt}
       \/ disk[ActionItemsFile] \in {Absent, Corrupt}
    THEN /\ err' = Raised("FileNotFoundError", {})
         /\ UNCHANGED <<seasonal_risk, action_items>>
    ELSE /\ err' = NoErr
         /\ seasonal_risk' = disk[SeasonalRiskFile]
         /\ action_items' = disk[ActionItemsFile]

\* load_seasonal_risk_and_actions (lines 511-532)
load_seasonal_risk_and_actions ==
    IF disk[SeasonalRiskFile] = Corrupt
    THEN /\ err' = Raised("JSONDecodeError", {})
         /\ UNCHANGED <<seasonal_risk, action_items>>
    ELSE /\ seasonal_risk' = IF disk[SeasonalRiskFile] = Absent
                             THEN seasonal_risk ELSE disk[SeasonalRiskFile]
         /\ IF disk[ActionItemsFile] = Corrupt
            THEN err' = Raised("JSONDecodeError", {}) /\ action_items' = action_items
            ELSE /\ err' = NoErr
                 /\ action_items' = IF disk[ActionItemsFile] = Absent
                                    THEN action_items ELSE disk[ActionItemsFile]

\* _save_json (lines 584-588): open() may fail and leave the file alone,
\* json.dump may fail and leave a partly written file
_save_json(name, content) ==
    \/ /\ disk' = [disk EXCEPT ![name] = content]
       /\ written' = written \cup {name}
       /\ err' = NoErr
    \/ /\ err' = Raised("OSError", {})
       /\ UNCHANGED <<disk, written>>
    \/ /\ disk' = [disk EXCEPT ![name] = Corrupt]
       /\ err' = Raised("OSError", {})
       /\ UNCHANGED written

-----------------------------------------------------------------------------
(* load_pos_data, load_ladder_data *)

NoFile == [nofile |-> TRUE]     \* self.pos_file names no workbook
Loaded == [loaded |-> TRUE]     \* the velocity sheet

\* df[df['WD Style/Color'].notna()] (line 124)
NonBlank(t) ==
    [cols |-> t.cols, rows |-> SelectSeq(t.rows, LAMBDA r : r[KeyCol] # NaNKey)]

\* load_pos_data (lines 82-151): the table is taken when it has the style and
\* the YTD sales columns and a non-blank row
LoadPosError(f) ==
    IF f = NoFile THEN Raised("FileNotFoundError", {})
    ELSE IF \/ KeyCol \notin f.cols
            \/ SalesRetailYTD \notin f.cols
            \/ NonBlank(f).rows = <<>>
         THEN Raised("ValueError", {KeyCol, SalesRetailYTD})
    ELSE NoErr

load_pos_data ==
    LET e == LoadPosError(posFile)
    IN  IF e # NoErr
        THEN err' = e /\ pos_ytd_df' = pos_ytd_df
        ELSE err' = NoErr /\ pos_ytd_df' = NonBlank(posFile)

\* load_ladder_data (lines 153-176): reads the velocity workbook, never raises
load_ladder_data ==
    /\ \E v \in {Loaded, None} : velocity_raw' = v
    /\ err' = NoErr

-----------------------------------------------------------------------------
(* Inputs.  The constructor leaves pos_lw, pos_ytd and ladder None and the  *)
(* tier sets empty, and no loader assigns them: a populated field is one    *)
(* the caller of the public methods has assigned.  POS rows are listed in a *)
(* fixed order of the row choices.                                          *)

ValSeq == <<NaN, <<-1>>, <<0>>, <<1>>, <<MaxVal>>>>
OtherSeq == <<<<-1>>, <<0>>, <<1>>, <<MaxVal>>>>
KeyValSeq == KeySeq \o <<NaNKey>>

FinelineOfKey(k) ==
    IF k \in {"K1", "K2"} THEN "F1" ELSE IF k = "K3" THEN "F2" ELSE NaNKey

\* a POS row: a in the current sales columns, b in the year-ago and on-hand ones
PosRow(k, a, b) ==
    [c \in PosCols |->
        IF c = KeyCol THEN k
        ELSE IF c = FinelineCol THEN FinelineOfKey(k)
        ELSE IF c \in {SalesUnitsLW, SalesRetailLW, SalesUnitsYTD, SalesRetailYTD} THEN a
        ELSE b]

\* one SKU, every pair of values
ValueRows ==
    [i \in 1..(Len(ValSeq) * Len(OtherSeq)) |->
        PosRow("K1", ValSeq[((i - 1) \div Len(OtherSeq)) + 1],
                     OtherSeq[((i - 1) % Len(OtherSeq)) + 1])]

\* every key, every current sales value, one unit on hand
KeyRows ==
    [i \in 1..(Len(KeyValSeq) * Len(ValSeq)) |->
        PosRow(KeyValSeq[((i - 1) \div Len(ValSeq)) + 1],
               ValSeq[((i - 1) % Len(ValSeq)) + 1], <<1>>)]

BaseRows == <<PosRow("K1", <<MaxVal>>, <<1>>), PosRow("K2", <<1>>, <<1>>),
              PosRow("K3", <<0>>, <<0>>)>>

SortedIndexSeqs(n, m) ==
    UNION {{ix \in [1..len -> 1..n] : \A i \in 1..(len - 1) : ix[i] <= ix[i + 1]} :
           len \in 0..m}

TablesOf(rowSeq, cols, m) ==
    {[cols |-> cols, rows |-> [j \in 1..Len(ix) |-> rowSeq[ix[j]]]] :
        ix \in SortedIndexSeqs(Len(rowSeq), m)}

BaseTable == [cols |-> PosCols, rows |-> BaseRows]

LadderRow(k, f) == [c \in LadderCols |-> IF c = KeyCol THEN k ELSE f]
DefaultLadder ==
    [cols |-> LadderCols, rows |-> <<LadderRow("K1", "F1"), LadderRow("K2", "F1")>>]
LadderChoices ==
    {DefaultLadder,
     [cols |-> LadderCols, rows |-> <<>>],
     [cols |-> {KeyCol}, rows |-> DefaultLadder.rows],
     [cols |-> {FinelineCol}, rows |-> DefaultLadder.rows],
     [cols |-> LadderCols,
      rows |-> <<LadderRow("K1", "F1"), LadderRow("K1", "F2"), LadderRow("K3", "F2")>>]}

NoTiers == [t \in {"A", "B", "C"} |-> {}]
TierChoices == [{"A", "B", "C"} -> SUBSET Keys]

Input(lw, ytd, lad, tiers) ==
    [pos_lw |-> lw, pos_ytd |-> ytd, ladder |-> lad, tiers |-> tiers]

ValueInputs ==
    {Input(t, t, DefaultLadder, NoTiers) : t \in TablesOf(ValueRows, PosCols, MaxRows)}
KeyInputs ==
    {Input(t, t, DefaultLadder, NoTiers) : t \in TablesOf(KeyRows, PosCols, MaxRows)}
ColumnInputs ==
    {Input(t, t, DefaultLadder, NoTiers) :
        t \in {[cols |-> PosCols \ missing, rows |-> BaseRows] :
                  missing \in {m \in SUBSET PosCols : Cardinality(m) \in {1, 2}}}}
LadderInputs ==
    {Input(BaseTable, BaseTable, lad, NoTiers) : lad \in LadderChoices}
TierInputs ==
    {Input(BaseTable, BaseTable, DefaultLadder, tiers) : tiers \in TierChoices}
NoneInputs ==
    {Input(lw, ytd, lad, NoTiers) :
        lw \in {None, BaseTable}, ytd \in {None, BaseTable}, lad \in {None, DefaultLadder}}

Inputs == ValueInputs \cup KeyInputs \cup ColumnInputs \cup LadderInputs
          \cup TierInputs \cup NoneInputs

NoDisk == [a \in Artifacts |-> Absent]
DiskChoices ==
    {[NoDisk EXCEPT ![SeasonalRiskFile] = s, ![ActionItemsFile] = a] :
        s \in {Absent, StoredItems, Corrupt}, a \in {Absent, StoredItems, Corrupt}}

\* __init__ (lines 30-53), with the fields the caller has assigned
EtlInit(in, file, d) ==
    /\ posFile = file
    /\ pos_lw = in.pos_lw
    /\ pos_ytd = in.pos_ytd
    /\ ladder = in.ladder
    /\ pos_ytd_df = None
    /\ velocity_raw = None
    /\ tier_assignments = in.tiers
    /\ sku_master = <<>>
    /\ fineline_rollup = <<>>
    /\ weekly_summary = EmptyDict
    /\ seasonal_risk = EmptyList
    /\ action_items = EmptyList
    /\ metrics = EmptyDict
    /\ meta = EmptyDict
    /\ disk = d
    /\ written = {}
    /\ pc = "idle"
    /\ called = "none"
    /\ err = NoErr
    /\ result = "none"

\* generate_weekly_insights has not been called
NoInsightsCall ==
    /\ current_week_df = None
    /\ ly_week_df = None
    /\ week_number = 0
    /\ insights = None

InitWith(in, file, d) ==
    /\ EtlInit(in, file, d)
    /\ velocity_df = <<>>
    /\ style_map = EmptyDict
    /\ cell = NaN
    /\ cell_default = 0
    /\ coerced = <<>>
    /\ NoInsightsCall

Init == \E in \in Inputs, d \in {NoDisk} : InitWith(in, NoFile, d)

-----------------------------------------------------------------------------
(* The public methods: the caller invokes one of them on a populated instance *)

Returned(method) ==
    /\ pc' = "returned"
    /\ called' = method
    /\ UNCHANGED <<posFile, pos_lw, pos_ytd, ladder, tier_assignments, result,
                   velocity_df, style_map, cell, cell_default, coerced, insightVars>>

CallBuildSkuMaster ==
    /\ pc = "idle"
    /\ build_sku_master
    /\ Returned("build_sku_master")
    /\ UNCHANGED <<pos_ytd_df, velocity_raw, fineline_rollup, weekly_summary,
                   seasonal_risk, action_items, metrics, meta, disk, written>>

CallBuildFinelineRollup ==
    /\ pc = "idle"
    /\ build_fineline_rollup
    /\ Returned("build_fineline_rollup")
    /\ UNCHANGED <<pos_ytd_df, velocity_raw, sku_master, weekly_summary,
                   seasonal_risk, action_items, metrics, meta, disk, written>>

CallBuildWeeklySalesSummary ==
    /\ pc = "idle"
    /\ build_weekly_sales_summary
    /\ Returned("build_weekly_sales_summary")
    /\ UNCHANGED <<pos_ytd_df, velocity_raw, sku_master, fineline_rollup,
                   seasonal_risk, action_items, metrics, meta, disk, written>>

CallCalculateTiers ==
    /\ pc = "idle"
    /\ calculate_tiers
    /\ Returned("calculate_tiers")
    /\ UNCHANGED <<pos_ytd_df, velocity_raw, sku_master, fineline_rollup,
                   weekly_summary, seasonal_risk, action_items, meta, disk, written>>

CallLoadSeasonalRiskAndActions ==
    /\ pc = "idle"
    /\ load_seasonal_risk_and_actions
    /\ Returned("load_seasonal_risk_and_actions")
    /\ UNCHANGED <<pos_ytd_df, velocity_raw, sku_master, fineline_rollup,
                   weekly_summary, metrics, meta, disk, written>>

CallBuildMeta ==
    /\ pc = "idle"
    /\ build_meta
    /\ Returned("build_meta")
    /\ UNCHANGED <<pos_ytd_df, velocity_raw, sku_master, fineline_rollup,
                   weekly_summary, seasonal_risk, action_items, disk, written>>

Next ==
    \/ CallBuildSkuMaster
    \/ CallBuildFinelineRollup
    \/ CallBuildWeeklySalesSummary
    \/ CallCalculateTiers
    \/ CallLoadSeasonalRiskAndActions
    \/ CallBuildMeta

Spec == Init /\ [][Next]_vars

-----------------------------------------------------------------------------
(* run() (lines 593-641): each call of the try block is one step; a step    *)
(* that raises takes the except branch, which returns False.                *)

\* where run() goes after a step: on to `next`, or out through the handler
Goto(method, next) ==
    /\ called' = method
    /\ pc' = IF err' = NoErr THEN next ELSE "done"
    /\ result' = IF err' = NoErr THEN result ELSE "False"
    /\ UNCHANGED <<posFile, pos_lw, pos_ytd, ladder, tier_assignments,
                   velocity_df, style_map, cell, cell_default, coerced, insightVars>>

\* _ensure_output_dir (lines 58-59): os.makedirs may fail
RunEnsureOutputDir ==
    /\ pc = "idle"
    /\ \E e \in {NoErr, Raised("OSError", {})} : err' = e
    /\ Goto("_ensure_output_dir", "load_pos_data")
    /\ UNCHANGED <<pos_ytd_df, velocity_raw, sku_master, fineline_rollup, weekly_summary,
                   seasonal_risk, action_items, metrics, meta, disk, written>>

RunLoadPosData ==
    /\ pc = "load_pos_data"
    /\ load_pos_data
    /\ Goto("load_pos_data", "load_ladder_data")
    /\ UNCHANGED <<velocity_raw, sku_master, fineline_rollup, weekly_summary,
                   seasonal_risk, action_items, metrics, meta, disk, written>>

RunLoadLadderData ==
    /\ pc = "load_ladder_data"
    /\ load_ladder_data
    /\ Goto("load_ladder_data", "build_sku_master")
    /\ UNCHANGED <<pos_ytd_df, sku_master, fineline_rollup, weekly_summary,
                   seasonal_risk, action_items, metrics, meta, disk, written>>

RunBuildSkuMaster ==
    /\ pc = "build_sku_master"
    /\ build_sku_master
    /\ Goto("build_sku_master", "build_fineline_rollup")
    /\ UNCHANGED <<pos_ytd_df, velocity_raw, fineline_rollup, weekly_summary,
                   seasonal_risk, action_items, metrics, meta, disk, written>>

RunBuildFinelineRollup ==
    /\ pc = "build_fineline_rollup"
    /\ build_fineline_rollup
    /\ Goto("build_fineline_rollup", "build_weekly_sales_summary")
    /\ UNCHANGED <<pos_ytd_df, velocity_raw, sku_master, weekly_summary,
                   seasonal_risk, action_items, metrics, meta, disk, written>>

RunBuildWeeklySalesSummary ==
    /\ pc = "build_weekly_sales_summary"
    /\ build_weekly_sales_summary
    /\ Goto("build_weekly_sales_summary", "load_seasonal_risk_and_actions")
    /\ UNCHANGED <<pos_ytd_df, velocity_raw, sku_master, fineline_rollup,
                   seasonal_risk, action_items, metrics, meta, disk, written>>

RunLoadSeasonalRiskAndActions ==
    /\ pc = "load_seasonal_risk_and_actions"
    /\ load_seasonal_risk_and_actions
    /\ Goto("load_seasonal_risk_and_actions", "build_meta")
    /\ UNCHANGED <<pos_ytd_df, velocity_raw, sku_master, fineline_rollup,
                   weekly_summary, metrics, meta, disk, written>>

RunBuildMeta ==
    /\ pc = "build_meta"
    /\ build_meta
    /\ Goto("build_meta", "save_1")
    /\ UNCHANGED <<pos_ytd_df, velocity_raw, sku_master, fineline_rollup,
                   weekly_summary, seasonal_risk, action_items, disk, written>>

\* what json.dump writes for the i-th artifact (lines 620-625)
Content(i) ==
    IF ArtifactSeq[i] = SeasonalRiskFile THEN seasonal_risk
    ELSE IF ArtifactSeq[i] = ActionItemsFile THEN action_items
    ELSE Saved

SaveLabel(i) == <<"save_1", "save_2", "save_3", "save_4", "save_5", "save_6", "return">>[i]

RunSaveJson ==
    \E i \in 1..Len(ArtifactSeq) :
        /\ pc = SaveLabel(i)
        /\ _save_json(ArtifactSeq[i], Content(i))
        /\ Goto("_save_json", SaveLabel(i + 1))
        /\ UNCHANGED <<pos_ytd_df, velocity_raw, sku_master, fineline_rollup,
                       weekly_summary, seasonal_risk, action_items, metrics, meta>>

\* return True (line 636)
RunReturnTrue ==
    /\ pc = "return"
    /\ pc' = "done"
    /\ result' = "True"
    /\ UNCHANGED <<posFile, pos_lw, pos_ytd, ladder, pos_ytd_df, velocity_raw,
                   tier_assignments, sku_master, fineline_rollup, weekly_summary,
                   seasonal_risk, action_items, metrics, meta, disk, written, called, err,
                   velocity_df, style_map, cell, cell_default, coerced, insightVars>>

\* the POS workbooks run() is given
RunTables ==
    TablesOf(KeyRows, PosCols, 1)
    \cup {[cols |-> PosCols \ missing, rows |-> BaseRows] :
             missing \in {m \in SUBSET PosCols : Cardinality(m) <= 1}}

\* a fresh instance, or one whose tables the caller has assigned from the
\* workbook before calling run()
RunInputs ==
    {Input(None, None, None, NoTiers)}
    \cup {Input(t, t, lad, NoTiers) : t \in RunTables, lad \in {DefaultLadder}}
    \cup {Input(BaseTable, BaseTable, lad, NoTiers) : lad \in LadderChoices}

RunInit ==
    \E in \in RunInputs, d \in DiskChoices :
        \E file \in (IF in.pos_lw = None THEN RunTables \cup {NoFile} ELSE {in.pos_lw}) :
            InitWith(in, file, d)

RunNext ==
    \/ RunEnsureOutputDir
    \/ RunLoadPosData
    \/ RunLoadLadderData
    \/ RunBuildSkuMaster
    \/ RunBuildFinelineRollup
    \/ RunBuildWeeklySalesSummary
    \/ RunLoadSeasonalRiskAndActions
    \/ RunBuildMeta
    \/ RunSaveJson
    \/ RunReturnTrue

RunSpec == RunInit /\ [][RunNext]_vars

-----------------------------------------------------------------------------
(* velocity_trends_integration.py.  A velocity row maps each column name to *)
(* its cell.  The style cell is <<>> when missing and <<s>> for the string  *)
(* s.  Quantities, dollars and store counts are whole numbers; the wos of a *)
(* size record is in tenths, its lw_inv_units an exact fraction <<n, d>>.   *)

VndrCategory2 == "Vndr Category 2"
PrimeItemNbr == "Prime Item Nbr"
ItemStatus == "Item Status"
LWPOSQty == "LW POS Qty"
TotalLWStrInvRetail == "Total LW Str Inv Retail"
LWAvgRetail == "LW Avg Retail"
CurrValidStores == "Curr Valid Stores"
UnitRetail == "Unit Retail"
UnitCost == "Unit Cost"
VelocityCols == {VndrCategory2, PrimeItemNbr, ItemStatus, LWPOSQty, TotalLWStrInvRetail,
                 LWAvgRetail, CurrValidStores, UnitRetail, UnitCost}

\* str(x): a missing cell spells 'nan'
Str(c) == IF c = NaN THEN "nan" ELSE c[1]

\* s.strip() on the strings of the model
Strip(str) ==
    IF str \in {" ", ""} THEN ""
    ELSE IF str = " K2 " THEN "K2"
    ELSE str

\* line 49
StyleColor(row) == Strip(Str(row[VndrCategory2]))

\* line 51: `not style_color or pd.isna(style_color)`; a string is never NA
Skipped(row) == StyleColor(row) = ""

\* `x or d` (lines 60-62, 71, 83-84): 0 is the only falsy cell
Or(x, d) == IF x = <<0>> THEN <<d>> ELSE x

\* `x > 0` on a number or a NaN
Positive(x) == x # NaN /\ x[1] > 0

\* the exception lines 60-84 raise on a row, NoErr when none: comparing or
\* dividing a string raises TypeError, float() of a string and int() of a
\* string or of a NaN raise ValueError
PrimeItemError(row) ==
    LET lw_pos_qty == Or(row[LWPOSQty], 0)
        lw_inv_retail == Or(row[TotalLWStrInvRetail], 0)
        lw_avg_retail == Or(row[LWAvgRetail], 1)
        curr_valid_stores == Or(row[CurrValidStores], 0)
    IN  IF lw_avg_retail = Text THEN Raised("TypeError", {LWAvgRetail})
        ELSE IF Positive(lw_avg_retail) /\ lw_inv_retail = Text
             THEN Raised("TypeError", {TotalLWStrInvRetail})
        ELSE IF lw_pos_qty = Text THEN Raised("TypeError", {LWPOSQty})
        ELSE IF lw_inv_retail = Text THEN Raised("ValueError", {TotalLWStrInvRetail})
        ELSE IF curr_valid_stores \in {Text, NaN}
             THEN Raised("ValueError", {CurrValidStores})
        ELSE IF Or(row[UnitRetail], 0) = Text THEN Raised("ValueError", {UnitRetail})
        ELSE IF Or(row[UnitCost], 0) = Text THEN Raised("ValueError", {UnitCost})
        ELSE NoErr

\* the size record of a row that raises nothing (lines 55-85)
PrimeItemRecord(row) ==
    LET lw_pos_qty == Or(row[LWPOSQty], 0)
        lw_inv_retail == Or(row[TotalLWStrInvRetail], 0)
        lw_avg_retail == Or(row[LWAvgRetail], 1)
        lw_inv_units ==
            IF Positive(lw_avg_retail)
            THEN (IF lw_inv_retail = NaN THEN NaN
                  ELSE <<lw_inv_retail[1], lw_avg_retail[1]>>)
            ELSE <<0, 1>>
        wos ==
            IF Positive(lw_pos_qty)
            THEN (IF lw_inv_units = NaN THEN NaN
                  ELSE <<Round1(<<lw_inv_units[1], lw_inv_units[2] * lw_pos_qty[1]>>)>>)
            ELSE <<0>>
    IN  [prime_item |-> row[PrimeItemNbr],
         item_status |-> row[ItemStatus],
         lw_pos_qty |-> lw_pos_qty,
         lw_inv_units |-> lw_inv_units,
         lw_inv_retail |-> lw_inv_retail,
         wos |-> wos,
         curr_valid_stores |-> Or(row[CurrValidStores], 0)[1],
         unit_retail |-> Or(row[UnitRetail], 0),
         unit_cost |-> Or(row[UnitCost], 0)]

\* the rows the loop does not skip
MappedRows(df) == SelectSeq(df, LAMBDA row : ~Skipped(row))

\* the first exception the loop of lines 47-91 meets
MapError(df) ==
    LET bad == SelectSeq(MappedRows(df), LAMBDA row : PrimeItemError(row) # NoErr)
    IN  IF bad = <<>> THEN NoErr ELSE PrimeItemError(bad[1])

\* the style map of lines 45-96: each style/color code with its size records
\* in row order
StyleMap(df) ==
    [k \in {StyleColor(row) : row \in Range(MappedRows(df))} |->
        LET rows == SelectSeq(MappedRows(df), LAMBDA row : StyleColor(row) = k)
        IN  [i \in 1..Len(rows) |-> PrimeItemRecord(rows[i])]]

map_velocity_to_styles ==
    LET e == MapError(velocity_df)
    IN  IF e # NoErr
        THEN err' = e /\ style_map' = style_map
        ELSE err' = NoErr /\ style_map' = StyleMap(velocity_df)

ProductiveWos == 200    \* `p['wos'] < 20`, in tenths
DeadWos == 300          \* `p['wos'] > 30`, in tenths
PctTenths == 1000       \* `* 100` rounded to one decimal, in tenths of a percent

RECURSIVE MaxOf(_)
MaxOf(q) == IF Len(q) = 1 THEN q[1] ELSE Max(q[1], MaxOf(Tail(q)))
RECURSIVE MinOf(_)
MinOf(q) == IF Len(q) = 1 THEN q[1]
            ELSE LET m == MinOf(Tail(q)) IN IF q[1] <= m THEN q[1] ELSE m

\* a store count that adds the sizes up
TotalStores_Sum(prime_items) ==
    SumInts([i \in 1..Len(prime_items) |-> prime_items[i].curr_valid_stores])

\* line 127
TotalStores(prime_items) ==
    IF prime_items # <<>>
    THEN MaxOf([i \in 1..Len(prime_items) |-> prime_items[i].curr_valid_stores])
    ELSE 0

\* line 139
ProductiveSizes(prime_items) ==
    SelectSeq(prime_items, LAMBDA p : /\ Positive(p.lw_pos_qty)
                                      /\ p.wos # NaN /\ p.wos[1] < ProductiveWos)

\* a dead-size test that looks at the weeks of supply only
DeadSizes_WosOnly(prime_items) ==
    SelectSeq(prime_items, LAMBDA p : p.wos # NaN /\ p.wos[1] > DeadWos)

\* line 140
DeadSizes(prime_items) ==
    SelectSeq(prime_items, LAMBDA p : \/ p.wos # NaN /\ p.wos[1] > DeadWos
                                      \/ /\ p.lw_pos_qty = <<0>>
                                         /\ Positive(p.lw_inv_units))

\* lines 124-153
SizeAnalysis(prime_items) ==
    LET total_prime_items == Len(prime_items)
        wos_values == Column(SelectSeq(prime_items, LAMBDA p : Positive(p.wos)), "wos")
        wos_tenths == [i \in 1..Len(wos_values) |-> wos_values[i][1]]
    IN  [total_prime_items |-> total_prime_items,
         active_items |-> Len(SelectSeq(prime_items, LAMBDA p : p.item_status = "A")),
         total_stores |-> TotalStores(prime_items),
         avg_wos |-> IF wos_tenths # <<>>
                     THEN RoundDiv(SumInts(wos_tenths), Len(wos_tenths)) ELSE 0,
         max_wos |-> IF wos_tenths # <<>> THEN MaxOf(wos_tenths) ELSE 0,
         min_wos |-> IF wos_tenths # <<>> THEN MinOf(wos_tenths) ELSE 0,
         productive_sizes |-> Len(ProductiveSizes(prime_items)),
         dead_sizes |-> Len(DeadSizes(prime_items)),
         size_efficiency_pct |->
             IF total_prime_items > 0
             THEN RoundDiv(Len(ProductiveSizes(prime_items)) * PctTenths, total_prime_items)
             ELSE 0]

\* the record with the field f set to v: sku[f] = v
SetField(r, f, v) == [g \in DOMAIN r \cup {f} |-> IF g = f THEN v ELSE r[g]]

\* an enrichment that gives every SKU a size-analysis block
EnrichedSku_AlwaysBlock(sku, map) ==
    LET prime_items == IF sku.sku \in DOMAIN map THEN map[sku.sku] ELSE <<>>
    IN  SetField(SetField(SetField(sku, "size_analysis", SizeAnalysis(prime_items)),
                          "store_count", TotalStores(prime_items)),
                 "prime_items", prime_items)

\* one turn of the loop of lines 114-161
EnrichedSku(sku, map) ==
    IF sku.sku \in DOMAIN map
    THEN LET prime_items == map[sku.sku]
         IN  SetField(SetField(SetField(sku, "size_analysis", SizeAnalysis(prime_items)),
                               "store_count", TotalStores(prime_items)),
                      "prime_items", prime_items)
    ELSE SetField(sku, "store_count", 0)

enrich_sku_master_with_size_analysis ==
    /\ sku_master' = [i \in 1..Len(sku_master) |-> EnrichedSku(sku_master[i], style_map)]
    /\ err' = NoErr

-----------------------------------------------------------------------------
(* Size enrichment: the SKU master is built, the velocity sheet is mapped   *)
(* to styles and the SKU master is enriched with the map.                   *)

\* a velocity row of size number n: style cell k, status, LW POS Qty, LW store
\* inventory retail, LW average retail, valid stores; unit retail and cost 1
VelocityRow(n, k, status, qty, inv, avg, stores) ==
    [c \in VelocityCols |->
        IF c = VndrCategory2 THEN k
        ELSE IF c = PrimeItemNbr THEN n
        ELSE IF c = ItemStatus THEN status
        ELSE IF c = LWPOSQty THEN qty
        ELSE IF c = TotalLWStrInvRetail THEN inv
        ELSE IF c = LWAvgRetail THEN avg
        ELSE IF c = CurrValidStores THEN stores
        ELSE <<1>>]

\* sizes of K1 and K2 with weeks of supply 10, 20, 25, 30, 40 and 7.5, a size
\* with stock and no sales, a size with neither
SizeRows ==
    <<VelocityRow(1, <<"K1">>, "A", <<1>>, <<10>>, <<1>>, <<2>>),
      VelocityRow(2, <<"K1">>, "A", <<1>>, <<20>>, <<1>>, <<4>>),
      VelocityRow(3, <<"K1">>, "A", <<1>>, <<25>>, <<1>>, <<3>>),
      VelocityRow(4, <<"K1">>, "A", <<1>>, <<30>>, <<1>>, <<1>>),
      VelocityRow(5, <<"K1">>, "I", <<1>>, <<40>>, <<1>>, <<1>>),
      VelocityRow(6, <<"K1">>, "A", <<0>>, <<5>>, <<1>>, <<2>>),
      VelocityRow(7, <<"K1">>, "I", <<0>>, <<0>>, <<0>>, <<0>>),
      VelocityRow(8, <<"K2">>, "A", <<2>>, <<30>>, <<2>>, <<5>>)>>

\* the style cells a sheet can hold
StyleCellSeq == <<<<"K1">>, <<"K3">>, <<" K2 ">>, NaN, <<"">>, <<" ">>>>
StyleRows ==
    [i \in 1..Len(StyleCellSeq) |->
        VelocityRow(i, StyleCellSeq[i], "A", <<1>>, <<10>>, <<1>>, <<2>>)]

\* a size of K1 with one measure cell missing or not a number
MeasureColSeq == <<LWPOSQty, TotalLWStrInvRetail, LWAvgRetail, CurrValidStores,
                   UnitRetail, UnitCost>>
BadCellSeq == <<NaN, Text>>
BadRows ==
    [i \in 1..(Len(MeasureColSeq) * Len(BadCellSeq)) |->
        [SizeRows[1] EXCEPT ![MeasureColSeq[((i - 1) \div Len(BadCellSeq)) + 1]] =
                                BadCellSeq[((i - 1) % Len(BadCellSeq)) + 1]]]

\* a size whose inventory retail is no number and whose average retail is
\* negative
NegativeAvgRow ==
    VelocityRow(9, <<"K1">>, "A", <<1>>, Text, <<-1>>, <<2>>)

SheetsOf(rowSeq, m) ==
    {[j \in 1..Len(ix) |-> rowSeq[ix[j]]] : ix \in SortedIndexSeqs(Len(rowSeq), m)}

VelocitySheets ==
    SheetsOf(SizeRows, MaxSizes)
    \cup SheetsOf(StyleRows, 2)
    \cup {<<SizeRows[8]>> \o sheet : sheet \in SheetsOf(BadRows \o <<NegativeAvgRow>>, 1)}

SizeInputs ==
    {Input(t, t, DefaultLadder, NoTiers) :
        t \in TablesOf(BaseRows, PosCols, 1) \cup {BaseTable}}

SizeInit ==
    \E in \in SizeInputs, sheet \in VelocitySheets :
        /\ EtlInit(in, NoFile, NoDisk)
        /\ velocity_df = sheet
        /\ style_map = EmptyDict
        /\ cell = NaN
        /\ cell_default = 0
        /\ coerced = <<>>
        /\ NoInsightsCall

\* where the caller goes after a step
SizeStep(method, next) ==
    /\ called' = method
    /\ pc' = IF err' = NoErr THEN next ELSE "failed"
    /\ UNCHANGED <<posFile, pos_lw, pos_ytd, ladder, pos_ytd_df, velocity_raw,
                   tier_assignments, fineline_rollup, weekly_summary, seasonal_risk,
                   action_items, metrics, meta, disk, written, result, velocity_df,
                   cell, cell_default, coerced, insightVars>>

SizeBuildSkuMaster ==
    /\ pc = "idle"
    /\ build_sku_master
    /\ SizeStep("build_sku_master", "built")
    /\ UNCHANGED style_map

MapVelocityToStyles ==
    /\ pc = "built"
    /\ map_velocity_to_styles
    /\ SizeStep("map_velocity_to_styles", "mapped")
    /\ UNCHANGED sku_master

EnrichSkuMasterWithSizeAnalysis ==
    /\ pc = "mapped"
    /\ enrich_sku_master_with_size_analysis
    /\ SizeStep("enrich_sku_master_with_size_analysis", "enriched")
    /\ UNCHANGED style_map

\* the sheets of a later week: none, sizes of K2 only, a size of K1
LaterSheets == {<<>>, <<SizeRows[8]>>, <<SizeRows[1]>>}

\* map_velocity_to_styles called on another sheet after an enrichment
MapAnotherSheet ==
    /\ pc = "enriched"
    /\ \E sheet \in LaterSheets :
          /\ velocity_df' = sheet
          /\ IF MapError(sheet) # NoErr
             THEN err' = MapError(sheet) /\ style_map' = style_map
             ELSE err' = NoErr /\ style_map' = StyleMap(sheet)
    /\ called' = "map_velocity_to_styles"
    /\ pc' = IF err' = NoErr THEN "mapped_again" ELSE "failed"
    /\ UNCHANGED <<posFile, pos_lw, pos_ytd, ladder, pos_ytd_df, velocity_raw,
                   tier_assignments, sku_master, fineline_rollup, weekly_summary,
                   seasonal_risk, action_items, metrics, meta, disk, written, result,
                   cell, cell_default, coerced, insightVars>>

\* enrich_sku_master_with_size_analysis called again on the same SKU list
EnrichAgain ==
    /\ pc = "mapped_again"
    /\ enrich_sku_master_with_size_analysis
    /\ SizeStep("enrich_sku_master_with_size_analysis", "enriched_again")
    /\ UNCHANGED style_map

SizeNext ==
    \/ SizeBuildSkuMaster
    \/ MapVelocityToStyles
    \/ EnrichSkuMasterWithSizeAnalysis
    \/ MapAnotherSheet
    \/ EnrichAgain

SizeSpec == SizeInit /\ [][SizeNext]_vars

-----------------------------------------------------------------------------
(* The coercion helpers called on one cell value *)

\* halves of a unit from -MaxVal/2 to MaxVal/2
CoerceValues == {u * (TicksPerUnit \div 2) : u \in -MaxVal..MaxVal}
CoerceCells ==
    {NaN, Text} \cup {<<v>> : v \in CoerceValues} \cup {NumStr(v) : v \in CoerceValues}
CoerceDefaults == {-TicksPerUnit, 0, TicksPerUnit}

CoerceInit ==
    \E x \in CoerceCells, d \in CoerceDefaults :
        /\ EtlInit(Input(None, None, None, NoTiers), NoFile, NoDisk)
        /\ velocity_df = <<>>
        /\ style_map = EmptyDict
        /\ cell = x
        /\ cell_default = d
        /\ coerced = <<>>
        /\ NoInsightsCall

Coerced(method, value) ==
    /\ pc = "idle"
    /\ pc' = "returned"
    /\ called' = method
    /\ coerced' = <<value>>
    /\ err' = NoErr
    /\ UNCHANGED <<posFile, pos_lw, pos_ytd, ladder, pos_ytd_df, velocity_raw,
                   tier_assignments, sku_master, fineline_rollup, weekly_summary,
                   seasonal_risk, action_items, metrics, meta, disk, written, result,
                   velocity_df, style_map, cell, cell_default, insightVars>>

CallSafeFloat == Coerced("_safe_float", _safe_float(cell, cell_default))
CallSafeInt == Coerced("_safe_int", _safe_int(cell, cell_default))

CoerceNext == CallSafeFloat \/ CallSafeInt

CoerceSpec == CoerceInit /\ [][CoerceNext]_vars

-----------------------------------------------------------------------------
(* austin_insights.py: DashboardInsightsGenerator.generate_weekly_insights.  *)
(* A frame is [cols, rows]; sales_dollars, on_hand_units and                *)
(* sell_through_pct are non-negative whole numbers.  A percentage the code  *)
(* does not round is the exact fraction <<num, den>> with den > 0; a mean   *)
(* is <<sum, count>>, NaN over no rows.  A string is the sequence <<>> when *)
(* it is '' and <<r>> when it is the f-string that interpolates the values  *)
(* of the record r; {x:.1f} is x in tenths, {x:.0f} the nearest whole.      *)

CategoryCol == "category"
StyleColorCol == "style_color"
SalesDollars == "sales_dollars"
OnHandUnits == "on_hand_units"
SellThroughPct == "sell_through_pct"

\* str.lower() on the category labels
Lower ==
    [c \in {"Modular", "Seasonal", "SEASONAL"} |->
        IF c = "Modular" THEN "modular" ELSE "seasonal"]

\* the searched substrings each style code holds
Keywords ==
    [s \in {"CAP-BK", "HAT-NV", "11874-BK", "SHACKET-BK", "GP338-KH"} |->
        CASE s = "CAP-BK" -> {"CAP", "BK"}
          [] s = "HAT-NV" -> {"HAT", "NV"}
          [] s = "11874-BK" -> {"11874", "BK"}
          [] s = "SHACKET-BK" -> {"SHACKET", "BK"}
          [] s = "GP338-KH" -> {"GP338", "KH"}]

\* df[df['style_color'].str.contains('A|B', na=False, ...)]
Containing(rows, alternatives) ==
    SelectSeq(rows, LAMBDA r : Keywords[r.style_color] \cap alternatives # {})

\* df[df['category'].str.lower() == cat]
InCategory(rows, cat) == SelectSeq(rows, LAMBDA r : Lower[r.category] = cat)

RECURSIVE ColumnSum(_, _)
\* df[col].sum()
ColumnSum(rows, col) ==
    IF rows = <<>> THEN 0 ELSE Head(rows)[col] + ColumnSum(Tail(rows), col)

\* df[col].mean()
ColumnMean(rows, col) ==
    IF rows = <<>> THEN NaN ELSE <<ColumnSum(rows, col), Len(rows)>>

\* comparisons of exact fractions
FracLt(f, g) == f[1] * g[2] < g[1] * f[2]
Whole(k) == <<k, 1>>

\* {x:.1f} and {x:.0f}; nan is printed as nan
Tenths(f) == IF f = NaN THEN NaN ELSE RoundDiv(f[1] * 10, f[2])
Nearest(f) == IF f = NaN THEN NaN ELSE RoundDiv(f[1], f[2])
FracAbs(f) == IF f[1] < 0 THEN <<-f[1], f[2]>> ELSE f

\* df.loc[df['sales_dollars'].idxmax()]: the first row of the largest sales
TopRow(rows) ==
    rows[CHOOSE i \in 1..Len(rows) :
            /\ \A j \in 1..Len(rows) : rows[j].sales_dollars <= rows[i].sales_dollars
            /\ \A j \in 1..(i - 1) : rows[j].sales_dollars < rows[i].sales_dollars]

\* lines 90-98; total_units and avg_retail are read by nobody
_calculate_totals(df) ==
    [total_sales |-> ColumnSum(df.rows, SalesDollars),
     total_oh |-> ColumnSum(df.rows, OnHandUnits),
     avg_st |-> ColumnMean(df.rows, SellThroughPct)]

\* lines 114-118
subset(df, cat) ==
    IF CategoryCol \in df.cols THEN InCategory(df.rows, Lower[cat]) ELSE df.rows

\* lines 126-127
yoy_pct(cur, prev) ==
    IF prev = 0 THEN <<0, 1>> ELSE <<(cur - prev) * YoyPctScale, prev>>

\* lines 100-163
_generate_header_metrics(current, ly, current_df, ly_df) ==
    LET modular_current == subset(current_df, "Modular")
        modular_ly == subset(ly_df, "Modular")
        seasonal_current == subset(current_df, "Seasonal")
        seasonal_ly == subset(ly_df, "Seasonal")
        mod_sales == ColumnSum(modular_current, SalesDollars)
        mod_ly_sales == ColumnSum(modular_ly, SalesDollars)
        seas_sales == ColumnSum(seasonal_current, SalesDollars)
        seas_ly_sales ==
            IF seasonal_ly # <<>> THEN ColumnSum(seasonal_ly, SalesDollars) ELSE 1
    IN  [total |-> [sales |-> current.total_sales,
                    sales_yoy |-> yoy_pct(current.total_sales, ly.total_sales),
                    oh |-> current.total_oh,
                    oh_yoy |-> yoy_pct(current.total_oh, ly.total_oh),
                    st |-> current.avg_st],
         modular |-> [sales |-> mod_sales,
                      sales_yoy |-> yoy_pct(mod_sales, mod_ly_sales),
                      st |-> IF modular_current # <<>>
                             THEN ColumnMean(modular_current, SellThroughPct)
                             ELSE <<0, 1>>],
         seasonal |-> [sales |-> seas_sales,
                       sales_yoy |-> yoy_pct(seas_sales, seas_ly_sales),
                       st |-> IF seasonal_current # <<>>
                              THEN ColumnMean(seasonal_current, SellThroughPct)
                              ELSE <<0, 1>>]]

\* lines 169-195
_generate_big_picture(current, ly) ==
    LET sales_yoy == yoy_pct(current.total_sales, ly.total_sales)
        oh_yoy == yoy_pct(current.total_oh, ly.total_oh)
    IN  <<[sales_yoy |-> Tenths(sales_yoy),
           oh_yoy |-> Tenths(oh_yoy),
           enthusiasm |-> IF ~FracLt(sales_yoy, Whole(10)) THEN "WHAT A WEEK!"
                          ELSE IF ~FracLt(sales_yoy, Whole(5)) THEN "Strong performance!"
                          ELSE IF FracLt(sales_yoy, Whole(-10)) THEN "Need to dig in here."
                          ELSE ""]>>

\* lines 369-380: the first code of color_map the style holds
_extract_color_name(style_color) ==
    LET color_map == <<"BK", "NV", "KH", "CH", "RB", "BD", "BN">>
        hits == {i \in 1..Len(color_map) : color_map[i] \in Keywords[style_color]}
    IN  IF hits = {} THEN "BK"
        ELSE color_map[CHOOSE i \in hits : \A j \in hits : i <= j]

\* lines 382-393
_simplify_style_name(style_color) ==
    IF Keywords[style_color] \cap {"HIVS", "VIS"} # {} THEN "Hi-Vis Vest"
    ELSE IF "11874" \in Keywords[style_color] THEN "11874 Work Pant"
    ELSE IF "EU1939" \in Keywords[style_color] THEN "Duck Pant"
    ELSE IF "SHACKET" \in Keywords[style_color] THEN "Shacket"
    ELSE style_color

\* the prior-year total of a group, the current one when the group has no
\* prior-year rows (lines 407, 423, 464-465, 483-484, 347-348, 268-269)
PriorOrCurrent(ly_rows, rows, col) ==
    IF ly_rows # <<>> THEN ColumnSum(ly_rows, col) ELSE ColumnSum(rows, col)

\* lines 395-410
_analyze_work_pant(modular, ly_modular) ==
    LET work_pant == Containing(modular, {"11874"})
        ly_work_pant == Containing(ly_modular, {"11874"})
        top_row == TopRow(work_pant)
        current_total == ColumnSum(work_pant, SalesDollars)
        ly_total == PriorOrCurrent(ly_work_pant, work_pant, SalesDollars)
    IN  IF work_pant = <<>> THEN <<>>
        ELSE <<[callout |-> IF current_total * 100 > ly_total * 97
                            THEN "work pant streak" ELSE "work pant watch",
                color |-> _extract_color_name(top_row.style_color),
                sales_k |-> RoundDiv(top_row.sales_dollars, 1000),
                st |-> top_row.sell_through_pct * 10]>>

\* lines 412-424
_analyze_duck_pant(modular, ly_modular) ==
    LET duck_pant == Containing(modular, {"EU1939"})
        ly_duck == Containing(ly_modular, {"EU1939"})
        current_sales == ColumnSum(duck_pant, SalesDollars)
        ly_sales == PriorOrCurrent(ly_duck, duck_pant, SalesDollars)
    IN  IF duck_pant = <<>> THEN <<>>
        ELSE <<[callout |-> "duck pant",
                sales_yoy |-> Nearest(_yoy_pct(current_sales, ly_sales))]>>

\* twice top_items['sales_dollars'].quantile(0.5) of modular.nlargest(15, ...)
TopMedianTwice(modular) ==
    LET vals == [i \in 1..Len(modular) |-> modular[i].sales_dollars]
        m == IF Len(modular) < 15 THEN Len(modular) ELSE 15
        KthLargest(k) ==
            CHOOSE v \in Range(vals) :
                /\ Cardinality({i \in DOMAIN vals : vals[i] > v}) < k
                /\ Cardinality({i \in DOMAIN vals : vals[i] >= v}) >= k
    IN  KthLargest((m - 1) \div 2 + 1) + KthLargest(m \div 2 + 1)

\* lines 437-451: one tracked style
VolumeDriver(modular, style_code, style_name) ==
    LET style_data == Containing(modular, style_code)
        sales == ColumnSum(style_data, SalesDollars)
        st == ColumnMean(style_data, SellThroughPct)
    IN  IF style_data = <<>> \/ 2 * sales < TopMedianTwice(modular) THEN <<>>
        ELSE <<[callout |-> IF FracLt(Whole(15), st)
                            THEN "volume driver, in-stock opportunity"
                            ELSE "volume driver",
                style_name |-> style_name,
                sales_k |-> RoundDiv(sales, 1000),
                st |-> Tenths(st)]>>

\* lines 426-452
_analyze_volume_drivers(modular) ==
    IF modular = <<>> THEN <<>>
    ELSE VolumeDriver(modular, {"GP338"}, "Cargo Pant")
         \o VolumeDriver(modular, {"GP738"}, "Double Knee Pant")
         \o VolumeDriver(modular, {"HI-VIS", "HIVIS", "HIVS"}, "Hi-Vis Vest")

\* lines 454-473
_identify_modular_opportunities(modular, ly_modular) ==
    LET headwear == Containing(modular, {"HEAD", "CAP", "HAT"})
        ly_headwear == Containing(ly_modular, {"HEAD", "CAP", "HAT"})
        sales_yoy == _yoy_pct(ColumnSum(headwear, SalesDollars),
                              PriorOrCurrent(ly_headwear, headwear, SalesDollars))
        oh_yoy == _yoy_pct(ColumnSum(headwear, OnHandUnits),
                           PriorOrCurrent(ly_headwear, headwear, OnHandUnits))
    IN  IF headwear # <<>> /\ FracLt(sales_yoy, Whole(-20)) /\ FracLt(oh_yoy, sales_yoy)
        THEN <<[callout |-> "headwear in-stock opportunity",
                sales_yoy |-> Nearest(sales_yoy),
                st |-> Tenths(ColumnMean(headwear, SellThroughPct)),
                oh_yoy |-> Nearest(oh_yoy)]>>
        ELSE <<>>

\* lines 201-245
_generate_modular_insights(current_df, ly_df) ==
    LET modular == IF CategoryCol \in current_df.cols
                   THEN InCategory(current_df.rows, "modular") ELSE current_df.rows
        ly_modular == IF CategoryCol \in ly_df.cols
                      THEN InCategory(ly_df.rows, "modular") ELSE ly_df.rows
        mod_sales_yoy == _yoy_pct(ColumnSum(modular, SalesDollars),
                                  ColumnSum(ly_modular, SalesDollars))
        mod_oh_yoy == _yoy_pct(ColumnSum(modular, OnHandUnits),
                               ColumnSum(ly_modular, OnHandUnits))
    IN  IF modular = <<>> THEN [summary |-> <<>>, callouts |-> <<>>]
        ELSE [summary |-> <<[section |-> "Modular",
                             sales_yoy |-> Tenths(mod_sales_yoy),
                             oh_yoy |-> Tenths(mod_oh_yoy),
                             st |-> Tenths(ColumnMean(modular, SellThroughPct))]>>,
              callouts |-> _analyze_work_pant(modular, ly_modular)
                           \o _analyze_duck_pant(modular, ly_modular)
                           \o _analyze_volume_drivers(modular)
                           \o _identify_modular_opportunities(modular, ly_modular)]

\* lines 475-487
_analyze_outerwear(seasonal, ly_seasonal) ==
    LET outerwear == Containing(seasonal, {"JACKET", "SHACKET", "COAT"})
        ly_outerwear == Containing(ly_seasonal, {"JACKET", "SHACKET", "COAT"})
        sales_yoy == _yoy_pct(ColumnSum(outerwear, SalesDollars),
                              PriorOrCurrent(ly_outerwear, outerwear, SalesDollars))
        oh_yoy == _yoy_pct(ColumnSum(outerwear, OnHandUnits),
                           PriorOrCurrent(ly_outerwear, outerwear, OnHandUnits))
    IN  IF outerwear = <<>> THEN <<>>
        ELSE <<[callout |-> "outerwear",
                sales_yoy |-> Nearest(sales_yoy),
                oh_yoy |-> Nearest(oh_yoy)]>>

\* lines 489-527
_analyze_seasonal_items(seasonal) ==
    LET shacket == Containing(seasonal, {"SHACKET"})
        black_shacket == Containing(shacket, {"BK", "BLACK"})
        mechanic == Containing(seasonal, {"MECHANIC", "IKE"})
        tees == Containing(seasonal, {"GRAPHIC", "TEE"})
        shacket_st == ColumnMean(shacket, SellThroughPct)
        mech_st == ColumnMean(mechanic, SellThroughPct)
        tee_st == ColumnMean(tees, SellThroughPct)
    IN  (IF black_shacket = <<>> THEN <<>>
         ELSE <<[callout |-> "shacket",
                 st |-> Tenths(shacket_st),
                 std_pct |-> Tenths(<<shacket_st[1] * 3, shacket_st[2]>>),
                 black_sales_k |-> RoundDiv(ColumnSum(black_shacket, SalesDollars), 1000),
                 black_st |-> Tenths(ColumnMean(black_shacket, SellThroughPct))],
                [callout |-> "shacket per store",
                 per_store_lw |-> RoundDiv(ColumnSum(shacket, SalesDollars), 4700)]>>)
        \o (IF mechanic = <<>> THEN <<>>
            ELSE <<[callout |-> "mechanic jacket",
                    st |-> Tenths(mech_st),
                    std_pct |-> Tenths(<<mech_st[1] * 5, mech_st[2] * 2>>),
                    per_store |-> RoundDiv(ColumnSum(mechanic, SalesDollars), 4700)]>>)
        \o (IF tees = <<>> THEN <<>>
            ELSE <<[callout |-> "graphic tees",
                    st |-> Tenths(tee_st),
                    std_pct |-> Tenths(<<tee_st[1] * 7, tee_st[2]>>)]>>)

\* the body of _generate_seasonal_insights past its guard (lines 268-288)
SeasonalSpotlight(seasonal, ly_seasonal) ==
    LET sales_yoy == _yoy_pct(ColumnSum(seasonal, SalesDollars),
                              PriorOrCurrent(ly_seasonal, seasonal, SalesDollars))
        oh_yoy == _yoy_pct(ColumnSum(seasonal, OnHandUnits),
                           PriorOrCurrent(ly_seasonal, seasonal, OnHandUnits))
    IN  [summary |-> <<[section |-> "Seasonal",
                        sales_yoy |-> Tenths(sales_yoy),
                        oh_yoy |-> Tenths(oh_yoy),
                        st |-> Tenths(ColumnMean(seasonal, SellThroughPct))]>>,
         callouts |-> <<[callout |-> "fall seasonal shipped"]>>
                      \o _analyze_outerwear(seasonal, ly_seasonal)
                      \o _analyze_seasonal_items(seasonal)]

\* the Seasonal rows of a frame, none without a category column (lines 262-263)
SeasonalOf(df) ==
    IF CategoryCol \in df.cols THEN InCategory(df.rows, "seasonal") ELSE <<>>

\* the variant without the guard of lines 265-266
_generate_seasonal_insights_Unguarded(current_df, ly_df) ==
    SeasonalSpotlight(SeasonalOf(current_df), SeasonalOf(ly_df))

\* lines 251-288
_generate_seasonal_insights(current_df, ly_df) ==
    IF SeasonalOf(current_df) = <<>> THEN [summary |-> <<>>, callouts |-> <<>>]
    ELSE SeasonalSpotlight(SeasonalOf(current_df), SeasonalOf(ly_df))

\* lines 294-357
_generate_action_items(current_df, ly_df, current_totals, ly_totals) ==
    LET total_oh_yoy == _yoy_pct(current_totals.total_oh, ly_totals.total_oh)
        seasonal == SeasonalOf(current_df)
        seas_st == ColumnMean(seasonal, SellThroughPct)
        high_st_items == SelectSeq(current_df.rows, LAMBDA r : r.sell_through_pct > 15)
        top_item == TopRow(high_st_items)
        headwear == Containing(current_df.rows, {"HEAD", "CAP"})
        ly_headwear == Containing(ly_df.rows, {"HEAD", "CAP"})
        sales_yoy == _yoy_pct(ColumnSum(headwear, SalesDollars),
                              PriorOrCurrent(ly_headwear, headwear, SalesDollars))
        oh_yoy == _yoy_pct(ColumnSum(headwear, OnHandUnits),
                           PriorOrCurrent(ly_headwear, headwear, OnHandUnits))
    IN  (IF FracLt(Whole(5), total_oh_yoy)
         THEN <<[priority |-> 1, action |-> "Throttle Modular Reorders"]>>
         ELSE <<>>)
        \o (IF seasonal # <<>> /\ FracLt(seas_st, Whole(10))
            THEN <<[priority |-> 2, action |-> "Monitor Seasonal Velocity",
                    st |-> Tenths(seas_st)]>>
            ELSE <<>>)
        \o (IF high_st_items # <<>>
            THEN <<[priority |-> 3, action |-> "Double Down",
                    item |-> _simplify_style_name(top_item.style_color),
                    st |-> top_item.sell_through_pct * 10]>>
            ELSE <<>>)
        \o (IF headwear # <<>> /\ FracLt(sales_yoy, Whole(-20))
                               /\ FracLt(oh_yoy, Whole(-40))
            THEN <<[priority |-> 4, action |-> "Fix Headwear In-Stock",
                    sales_down |-> Nearest(FracAbs(sales_yoy)),
                    oh_down |-> Nearest(FracAbs(oh_yoy))]>>
            ELSE <<>>)

\* lines 46-84; previous_week_df is read by nobody
generate_weekly_insights(current_df, ly_df, week) ==
    LET current_totals == _calculate_totals(current_df)
        ly_totals == _calculate_totals(ly_df)
    IN  [week |-> week,
         header_metrics |->
             _generate_header_metrics(current_totals, ly_totals, current_df, ly_df),
         big_picture |-> _generate_big_picture(current_totals, ly_totals),
         modular_deep_dive |-> _generate_modular_insights(current_df, ly_df),
         seasonal_spotlight |-> _generate_seasonal_insights(current_df, ly_df),
         action_items |->
             _generate_action_items(current_df, ly_df, current_totals, ly_totals)]

-----------------------------------------------------------------------------
(* The narrative generator called on a current-week and a prior-year frame *)

InsightCols == {StyleColorCol, CategoryCol, SalesDollars, OnHandUnits, SellThroughPct}

InsightRow(style, cat, sales, oh, st) ==
    [style_color |-> style, category |-> cat, sales_dollars |-> sales,
     on_hand_units |-> oh, sell_through_pct |-> st]

\* sales dollars and on-hand units of a headwear row
HeadwearLevels == {<<1000, 1>>, <<2000, 2>>, <<3000, 2>>, <<4000, 3>>, <<2000, 3>>}

HeadwearRows ==
    {InsightRow(s, c, l[1], l[2], 5) :
        s \in {"CAP-BK", "HAT-NV"}, c \in {"Modular", "Seasonal"}, l \in HeadwearLevels}

OtherRows ==
    {InsightRow("11874-BK", "Modular", 5000, 5, 20),
     InsightRow("SHACKET-BK", "SEASONAL", 3000, 3, 8),
     InsightRow("GP338-KH", "Modular", 6000, 4, 16)}

\* at most one headwear row, then at most one other row
InsightRowSeqs ==
    {h \o o : h \in {<<>>} \cup {<<r>> : r \in HeadwearRows},
              o \in {<<>>} \cup {<<r>> : r \in OtherRows}}

\* df.drop(columns=['category'])
WithoutCategory(rows) ==
    [i \in 1..Len(rows) |-> [c \in InsightCols \ {CategoryCol} |-> rows[i][c]]]

InsightFrames ==
    {[cols |-> InsightCols, rows |-> rows] : rows \in InsightRowSeqs}
    \cup {[cols |-> InsightCols \ {CategoryCol}, rows |-> WithoutCategory(rows)] :
            rows \in InsightRowSeqs}

InsightsInit ==
    \E cur \in InsightFrames, ly \in InsightFrames :
        /\ EtlInit(Input(None, None, None, NoTiers), NoFile, NoDisk)
        /\ velocity_df = <<>>
        /\ style_map = EmptyDict
        /\ cell = NaN
        /\ cell_default = 0
        /\ coerced = <<>>
        /\ current_week_df = cur
        /\ ly_week_df = ly
        /\ week_number = 40
        /\ insights = None

GenerateWeeklyInsights ==
    /\ pc = "idle"
    /\ pc' = "returned"
    /\ called' = "generate_weekly_insights"
    /\ err' = NoErr
    /\ insights' = generate_weekly_insights(current_week_df, ly_week_df, week_number)
    /\ UNCHANGED <<posFile, pos_lw, pos_ytd, ladder, pos_ytd_df, velocity_raw,
                   tier_assignments, sku_master, fineline_rollup, weekly_summary,
                   seasonal_risk, action_items, metrics, meta, disk, written, result,
                   velocity_df, style_map, cell, cell_default, coerced,
                   current_week_df, ly_week_df, week_number>>

InsightsNext == GenerateWeeklyInsights

InsightsSpec == InsightsInit /\ [][InsightsNext]_vars

-----------------------------------------------------------------------------
(* Properties *)

Recs(list) == Range(list)
SummaryBuilt == weekly_summary # EmptyDict

\* |wos - inventory / den| <= 0.05, wos in tenths
WithinRounding(wos, inventory, den) ==
    2 * Abs(wos * den - 10 * inventory) <= den

\* two fractions are the same number
SameFraction(f, g) == f[1] * g[2] = g[1] * f[2]

\* C1 as stated: on every SKU record, every fineline record and the weekly
\* summary, wos is inventory_units_lw / sales_units_lw when sales_units_lw > 0
\* (to one decimal on SKU and fineline records) and 0.0 when it is not positive.
C1_AsStated ==
    /\ \A r \in Recs(sku_master) \cup Recs(fineline_rollup) :
          IF r.sales_units_lw > 0
          THEN WithinRounding(r.wos, r.inventory_units_lw, r.sales_units_lw)
          ELSE r.wos = 0
    /\ SummaryBuilt =>
          IF weekly_summary.sales_units_lw > 0
          THEN SameFraction(weekly_summary.wos,
                            <<weekly_summary.inventory_units_lw, weekly_summary.sales_units_lw>>)
          ELSE weekly_summary.wos[1] = 0

\* C1 amended: wos is inventory_units_lw / max(sales_units_lw, 0.0001) when
\* sales_units_lw > 0 (inventory / sales once sales reach 0.0001) and 0.0 when
\* sales_units_lw is not positive; the builds raise nothing when the tables
\* and their columns are there.
C1_Wos ==
    /\ \A r \in Recs(sku_master) \cup Recs(fineline_rollup) :
          IF r.sales_units_lw > 0
          THEN WithinRounding(r.wos, r.inventory_units_lw, Max(r.sales_units_lw, Eps))
          ELSE r.wos = 0
    /\ SummaryBuilt =>
          IF weekly_summary.sales_units_lw > 0
          THEN SameFraction(weekly_summary.wos,
                            <<weekly_summary.inventory_units_lw,
                              Max(weekly_summary.sales_units_lw, Eps)>>)
          ELSE weekly_summary.wos[1] = 0
    /\ (/\ called \in {"build_fineline_rollup", "build_weekly_sales_summary"}
        /\ pos_lw # None
        /\ PosCols \subseteq pos_lw.cols) => err = NoErr

\* a SKU list with a selling SKU below epsilon, one above it and one with stock
\* and no sales
C1_Witness ==
    /\ called = "build_sku_master"
    /\ \E r \in Recs(sku_master) : r.sales_units_lw >= Eps /\ r.wos > 0
    /\ \E r \in Recs(sku_master) :
          r.sales_units_lw > 0 /\ r.sales_units_lw < Eps /\ r.wos > 0
    /\ \E r \in Recs(sku_master) :
          r.sales_units_lw <= 0 /\ r.inventory_units_lw > 0 /\ r.wos = 0

FieldTotal(list, Field(_)) == SumInts([i \in 1..Len(list) |-> Field(list[i])])
TotalSalesYtd == FieldTotal(sku_master, LAMBDA r : r.sales_dollars_ytd)
TotalInventoryLw == FieldTotal(sku_master, LAMBDA r : r.inventory_dollars_lw)
SkuBuilt == called = "build_sku_master" /\ err = NoErr

\* the tables build_sku_master reads are there, with the columns it reads
SkuInputsPresent ==
    /\ pos_lw # None /\ pos_ytd # None /\ ladder # None
    /\ {KeyCol} \cup Range(LwMeasureCols) \subseteq pos_lw.cols
    /\ {KeyCol, SalesRetailYTD, SalesUnitsYTD} \subseteq pos_ytd.cols
    /\ KeyCol \in ladder.cols

\* C2 as stated: whenever the total YTD sales dollars of the SKU population
\* is > 0, cumulative_sales_pct never decreases along sku_master and is 1.0 on
\* the last record.
C2_AsStated ==
    (SkuBuilt /\ TotalSalesYtd > 0) =>
        /\ \A i \in 1..(Len(sku_master) - 1) :
              sku_master[i].cumulative_sales_pct <= sku_master[i + 1].cumulative_sales_pct
        /\ sku_master[Len(sku_master)].cumulative_sales_pct = Million

\* C3 as stated: for non-negative per-SKU values with a positive total, every
\* sales_pct_of_total lies in [0,1] and the values sum to exactly 1.0; the same
\* for inventory_pct_of_total.
C3_AsStated ==
    SkuBuilt =>
        /\ (TotalSalesYtd > 0 /\ \A r \in Recs(sku_master) : r.sales_dollars_ytd >= 0) =>
              /\ \A r \in Recs(sku_master) :
                    r.sales_pct_of_total >= 0 /\ r.sales_pct_of_total <= Million
              /\ FieldTotal(sku_master, LAMBDA r : r.sales_pct_of_total) = Million
        /\ (TotalInventoryLw > 0 /\ \A r \in Recs(sku_master) : r.inventory_dollars_lw >= 0) =>
              /\ \A r \in Recs(sku_master) :
                    r.inventory_pct_of_total >= 0 /\ r.inventory_pct_of_total <= Million
              /\ FieldTotal(sku_master, LAMBDA r : r.inventory_pct_of_total) = Million

\* C3 amended: for non-negative per-SKU values with a positive total, every
\* sales_pct_of_total lies in [0,1] and the values of the n emitted records sum
\* to 1.0 within n * 0.0000005, each value being rounded to six decimals; the
\* same for inventory_pct_of_total.
C3_Shares ==
    SkuBuilt =>
        /\ (TotalSalesYtd > 0 /\ \A r \in Recs(sku_master) : r.sales_dollars_ytd >= 0) =>
              /\ \A r \in Recs(sku_master) :
                    r.sales_pct_of_total >= 0 /\ r.sales_pct_of_total <= Million
              /\ 2 * Abs(FieldTotal(sku_master, LAMBDA r : r.sales_pct_of_total) - Million)
                    <= Len(sku_master)
        /\ (TotalInventoryLw > 0 /\ \A r \in Recs(sku_master) : r.inventory_dollars_lw >= 0) =>
              /\ \A r \in Recs(sku_master) :
                    r.inventory_pct_of_total >= 0 /\ r.inventory_pct_of_total <= Million
              /\ 2 * Abs(FieldTotal(sku_master, LAMBDA r : r.inventory_pct_of_total) - Million)
                    <= Len(sku_master)

\* three SKUs of equal sales: 0.333333 each, 0.999999 in all
C3_Witness ==
    /\ SkuBuilt
    /\ Len(sku_master) = 3
    /\ \A r \in Recs(sku_master) : r.sales_dollars_ytd > 0
    /\ FieldTotal(sku_master, LAMBDA r : r.sales_pct_of_total) = Million - 1

\* C4: when the total YTD sales dollars is not positive, every SKU record has
\* sales_pct_of_total = 0.0 and cumulative_sales_pct = 0.0, and the build ends
\* without an exception whenever its tables and columns are there.
C4_ZeroTotal ==
    /\ (SkuBuilt /\ TotalSalesYtd <= 0) =>
          \A r \in Recs(sku_master) :
              r.sales_pct_of_total = 0 /\ r.cumulative_sales_pct = 0
    /\ (called = "build_sku_master" /\ SkuInputsPresent) => err = NoErr

\* sales and returns that cancel: a SKU with sales, a total of zero
C4_Witness ==
    /\ SkuBuilt
    /\ TotalSalesYtd <= 0
    /\ \E r \in Recs(sku_master) : r.sales_dollars_ytd > 0

\* what the percent-change contract gives: (current - prior) / prior * 100,
\* 0.0 for a prior of 0
IsPercentChange(pct, current, prior) ==
    IF prior = 0 THEN pct[1] = 0
    ELSE SameFraction(pct, <<(current - prior) * YoyPctScale, prior>>)

\* C5 as stated: units_pct_delta and dollars_pct_delta of the weekly summary
\* and _yoy_pct are (current - prior) / prior * 100 for every prior # 0 and 0.0
\* for prior = 0.
C5_AsStated ==
    /\ SummaryBuilt =>
          /\ IsPercentChange(weekly_summary.units_pct_delta,
                             weekly_summary.sales_units_lw, weekly_summary.sales_units_lwly)
          /\ IsPercentChange(weekly_summary.dollars_pct_delta,
                             weekly_summary.sales_dollars_lw, weekly_summary.sales_dollars_lwly)
    /\ SummaryBuilt =>
          IsPercentChange(_yoy_pct(weekly_summary.sales_units_lw,
                                   weekly_summary.sales_units_lwly),
                          weekly_summary.sales_units_lw, weekly_summary.sales_units_lwly)

\* C6: every sku_master record has a tier among A, B, C; a SKU in none of the
\* tier sets has tier C; the lookup raises nothing.
C6_TierDefault ==
    /\ \A r \in Recs(sku_master) :
          /\ r.tier \in {"A", "B", "C"}
          /\ r.sku \notin (tier_assignments["A"] \cup tier_assignments["B"]
                           \cup tier_assignments["C"]) => r.tier = "C"
    /\ (called = "build_sku_master" /\ SkuInputsPresent) => err = NoErr

\* a SKU of tier A next to a SKU that is in no tier set
C6_Witness ==
    /\ SkuBuilt
    /\ \E r \in Recs(sku_master) : r.tier = "A"
    /\ \E r \in Recs(sku_master) :
          /\ r.sku \notin (tier_assignments["A"] \cup tier_assignments["B"]
                           \cup tier_assignments["C"])
          /\ r.tier = "C"

\* C7 as stated: a run tiers its own SKU population by the Pareto rule, so a
\* SKU whose cumulative share of a positive total is <= 80% is tier A.
C7_AsStated ==
    (result = "True" /\ TotalSalesYtd > 0) =>
        \A r \in Recs(sku_master) :
            (r.sales_dollars_ytd > 0 /\ 10 * r.cumulative_sales_pct <= 8 * Million)
                => r.tier = "A"

\* the required columns a POS table lacks
MissingOf(t, needed) == needed \ t.cols

\* C8: when the POS table lacks a column a rollup needs, build_sku_master and
\* build_fineline_rollup end with an error that names a missing column (the
\* missing column when there is one) and store no records.
C8_MissingColumn ==
    /\ (/\ called = "build_sku_master"
        /\ pos_lw # None /\ pos_ytd # None /\ ladder # None
        /\ MissingOf(pos_lw, {KeyCol} \cup Range(LwMeasureCols))
              \cup MissingOf(pos_ytd, {KeyCol, SalesRetailYTD, SalesUnitsYTD}) # {})
          => /\ err.kind = "KeyError"
             /\ err.names # {}
             /\ err.names \subseteq
                   MissingOf(pos_lw, {KeyCol} \cup Range(LwMeasureCols))
                   \cup MissingOf(pos_ytd, {KeyCol, SalesRetailYTD, SalesUnitsYTD})
             /\ sku_master = <<>>
    /\ (/\ called = "build_fineline_rollup"
        /\ pos_lw # None
        /\ MissingOf(pos_lw, Range(FinelineRequiredCols)) # {})
          => /\ err.kind = "ValueError"
             /\ err.names # {}
             /\ err.names \subseteq MissingOf(pos_lw, Range(FinelineRequiredCols))
             /\ fineline_rollup = <<>>

\* the fineline rollup refused a table without 'Sales Retail $ LW'
C8_Witness ==
    /\ called = "build_fineline_rollup"
    /\ pos_lw # None
    /\ MissingOf(pos_lw, Range(FinelineRequiredCols)) = {SalesRetailLW}
    /\ err = Raised("ValueError", {SalesRetailLW})

\* C9 as stated: when the POS table lacks 'Sales Retail $ LW', run() returns
\* False with an error naming that column and has written no artifact (a run
\* stopped by the file system aside).
C9_AsStated ==
    (/\ pc = "done"
     /\ posFile # NoFile
     /\ SalesRetailLW \notin posFile.cols
     /\ err.kind # "OSError")
       => /\ result = "False"
          /\ SalesRetailLW \in err.names
          /\ written = {}

\* C10 as stated: when run() returns, it has written all six artifacts or none.
C10_AsStated ==
    pc = "done" => (written = {} \/ written = Artifacts)

\* C11: in run(), when seasonal_risk.json (action_items.json) is absent and the
\* other file is not one json.load rejects, load_seasonal_risk_and_actions
\* raises nothing, the collection of the absent file is the empty list and
\* run() goes on to build_meta; a run ends on a JSON error only when one of the
\* two files is corrupt; the renderer's loaders give [] for an absent file.
C11_MissingAuxJson ==
    /\ (/\ called = "load_seasonal_risk_and_actions"
        /\ pc \in {"build_meta", "done"}
        /\ Absent \in {disk[SeasonalRiskFile], disk[ActionItemsFile]})
          => /\ disk[SeasonalRiskFile] = Absent => seasonal_risk = EmptyList
             /\ disk[ActionItemsFile] = Absent => action_items = EmptyList
             /\ Corrupt \notin {disk[SeasonalRiskFile], disk[ActionItemsFile]}
                   => err = NoErr /\ pc = "build_meta" /\ result = "none"
    /\ (pc = "done" /\ err.kind \in {"JSONDecodeError", "FileNotFoundError"}
           /\ called = "load_seasonal_risk_and_actions")
          => Corrupt \in {disk[SeasonalRiskFile], disk[ActionItemsFile]}
    /\ \A f \in {SeasonalRiskFile, ActionItemsFile} :
          disk[f] = Absent
            => load_seasonal_risk(disk[f]) = EmptyList /\ load_action_items(disk[f]) = EmptyList

\* run() has passed the loader with both auxiliary files absent
C11_Witness ==
    /\ called = "load_seasonal_risk_and_actions"
    /\ pc = "build_meta"
    /\ disk[SeasonalRiskFile] = Absent /\ disk[ActionItemsFile] = Absent
    /\ err = NoErr

\* the table with its rows in the order p
PermuteRows(t, p) == [cols |-> t.cols, rows |-> [i \in 1..Len(t.rows) |-> t.rows[p[i]]]]
RowOrders(t) == Permutations(1..Len(t.rows))

\* the key and the aggregated measures of a SKU record
SkuMeasures(r) ==
    [sku |-> r.sku,
     sales_units_ytd |-> r.sales_units_ytd, sales_dollars_ytd |-> r.sales_dollars_ytd,
     sales_units_lw |-> r.sales_units_lw, sales_units_lwly |-> r.sales_units_lwly,
     sales_dollars_lw |-> r.sales_dollars_lw, sales_dollars_lwly |-> r.sales_dollars_lwly,
     inventory_units_lw |-> r.inventory_units_lw,
     inventory_dollars_lw |-> r.inventory_dollars_lw]

\* C13: the SKU records and the fineline records built from the POS table (the
\* last-week and the year-to-date frame being that one table) have the same keys and the same aggregated measures per key as those built from
\* the table with its rows in any other order.
C13_RowOrder ==
    /\ (called = "build_sku_master" /\ err = NoErr /\ pos_ytd = pos_lw)
          => \A p \in RowOrders(pos_lw) :
                \A res \in SkuMasterResults(PermuteRows(pos_lw, p), PermuteRows(pos_ytd, p),
                                             ladder, tier_assignments) :
                    {SkuMeasures(r) : r \in Recs(res)}
                        = {SkuMeasures(r) : r \in Recs(sku_master)}
    /\ (called = "build_fineline_rollup" /\ err = NoErr)
          => \A p \in RowOrders(pos_lw) :
                Recs(FinelineRecords(PermuteRows(pos_lw, p))) = Recs(fineline_rollup)

\* a SKU rollup of two store rows of one SKU that differ in every measure
C13_Witness ==
    /\ called = "build_sku_master" /\ err = NoErr /\ pos_ytd = pos_lw
    /\ Len(pos_lw.rows) >= 2
    /\ pos_lw.rows[1][KeyCol] = pos_lw.rows[2][KeyCol]
    /\ pos_lw.rows[1][KeyCol] # NaNKey
    /\ \A c \in Range(LwMeasureCols) : pos_lw.rows[1][c] # pos_lw.rows[2][c]
    /\ sku_master # <<>>

LwMeasureFields == {"sales_units_lw", "sales_units_lwly", "sales_dollars_lw",
                    "sales_dollars_lwly", "inventory_units_lw", "inventory_dollars_lw"}
AllMeasureFields == LwMeasureFields \cup {"sales_units_ytd", "sales_dollars_ytd"}

\* C20 as stated: every additive measure of every SKU record, every fineline
\* record and the weekly summary is a number >= 0, and a table that has its
\* columns makes no builder fail whatever its cells hold.
C20_AsStated ==
    /\ \A r \in Recs(sku_master) : \A f \in AllMeasureFields : r[f] >= 0
    /\ \A r \in Recs(fineline_rollup) : \A f \in AllMeasureFields : r[f] >= 0
    /\ SummaryBuilt => \A f \in LwMeasureFields : weekly_summary[f] >= 0
    /\ (/\ called \in {"build_sku_master", "build_fineline_rollup",
                       "build_weekly_sales_summary"}
        /\ SkuInputsPresent /\ PosCols \subseteq pos_lw.cols)
          => err = NoErr

\* the number a cell spells, for a cell that parses as a number
ParsesAsNumber(x) == IsNumber(x) \/ IsNumStr(x)
NumericValue(x) == IF IsNumber(x) THEN x[1] ELSE x[2]

\* C19 as stated: _safe_float and _safe_int raise nothing; they return the
\* numeric value of x (its whole part for _safe_int) when x parses as a number
\* and the default when x is missing or spells no number.
C19_AsStated ==
    coerced # <<>>
      => /\ err = NoErr
         /\ (called = "_safe_float" /\ ParsesAsNumber(cell))
               => coerced[1] = NumericValue(cell)
         /\ (called = "_safe_int" /\ ParsesAsNumber(cell))
               => coerced[1] = Trunc(NumericValue(cell))
         /\ ~ParsesAsNumber(cell) => coerced[1] = cell_default

Enriched == pc = "enriched"
HasSizes(r) == r.sku \in DOMAIN style_map

\* C12 as stated: no SKU record, no fineline record and no entry of the style
\* map is keyed by a missing value: every key of the style map is the
\* non-empty stripped string of a style cell that is not missing.
C12_AsStated ==
    /\ \A r \in Recs(sku_master) : r.sku \notin {NaNKey, ""}
    /\ \A r \in Recs(fineline_rollup) : r.fineline \notin {NaNKey, ""}
    /\ \A k \in DOMAIN style_map :
          /\ k # ""
          /\ \E row \in Range(velocity_df) :
                row[VndrCategory2] # NaN /\ Strip(row[VndrCategory2][1]) = k

C15_StoreCountMax ==
    Enriched
      => \A r \in Recs(sku_master) :
            HasSizes(r)
              => /\ r.store_count = r.size_analysis.total_stores
                 /\ \A p \in Range(r.prime_items) : p.curr_valid_stores <= r.store_count
                 /\ \E p \in Range(r.prime_items) : p.curr_valid_stores = r.store_count

\* a SKU enriched from two sizes that are shelved in different numbers of stores
C15_Witness ==
    /\ Enriched
    /\ \E r \in Recs(sku_master) :
          /\ HasSizes(r)
          /\ \E p, q \in Range(r.prime_items) :
                0 < p.curr_valid_stores /\ p.curr_valid_stores < q.curr_valid_stores

\* the number of elements of q that satisfy Test
CountOf(q, Test(_)) == Len(SelectSeq(q, Test))

\* C16 as stated: productive_sizes is the number of size records with positive
\* LW sales quantity and WOS < 30, and size_efficiency_pct is
\* productive_sizes / total_prime_items x 100 (to one decimal).
C16_AsStated ==
    Enriched
      => \A r \in Recs(sku_master) :
            HasSizes(r)
              => /\ r.size_analysis.productive_sizes
                      = CountOf(r.prime_items,
                                LAMBDA p : /\ Positive(p.lw_pos_qty)
                                           /\ p.wos # NaN /\ p.wos[1] < 300)
                 /\ 2 * Abs(r.size_analysis.size_efficiency_pct * Len(r.prime_items)
                            - 1000 * r.size_analysis.productive_sizes)
                      <= Len(r.prime_items)

\* C17: dead_sizes is the number of size records with WOS > 30, or with zero
\* LW sales quantity and positive inventory units.
C17_DeadSizes ==
    Enriched
      => \A r \in Recs(sku_master) :
            HasSizes(r)
              => r.size_analysis.dead_sizes
                   = CountOf(r.prime_items,
                             LAMBDA p : \/ p.wos # NaN /\ p.wos[1] > 300
                                        \/ /\ p.lw_pos_qty = <<0>>
                                           /\ Positive(p.lw_inv_units))

\* a SKU with four size records, two of them above 30 weeks of supply and two
\* selling at 30 weeks or less, and dead_sizes 2; another SKU counts a dead
\* size that does not sell
C17_Witness ==
    /\ Enriched
    /\ \E r \in Recs(sku_master) :
          /\ HasSizes(r)
          /\ Len(r.prime_items) = 4
          /\ CountOf(r.prime_items, LAMBDA p : p.wos # NaN /\ p.wos[1] > 300) = 2
          /\ CountOf(r.prime_items,
                     LAMBDA p : /\ Positive(p.lw_pos_qty)
                                /\ p.wos # NaN /\ p.wos[1] <= 300) = 2
          /\ r.size_analysis.dead_sizes = 2

\* C18 as stated: map_velocity_to_styles and enrich_sku_master_with_size_analysis
\* raise on no velocity row, and a measure cell that is missing or not a
\* number is 0 in the size record.
C18_AsStated ==
    /\ called \in {"map_velocity_to_styles", "enrich_sku_master_with_size_analysis"}
          => err = NoErr
    /\ \A k \in DOMAIN style_map : \A p \in Range(style_map[k]) :
          /\ p.lw_pos_qty # NaN /\ p.lw_inv_retail # NaN /\ p.lw_inv_units # NaN
          /\ p.wos # NaN /\ p.unit_retail # NaN /\ p.unit_cost # NaN

\* C21 as stated: sku_master holds at most one record per style/color code.
C21_AsStated ==
    \A i, j \in 1..Len(sku_master) :
        sku_master[i].sku = sku_master[j].sku => i = j

\* run() has built the fineline rollup (and the SKU master before it)
FinelineBuiltInRun ==
    \/ called = "build_fineline_rollup" /\ err = NoErr
    \/ called \in {"build_weekly_sales_summary", "load_seasonal_risk_and_actions",
                   "build_meta", "_save_json"}

\* C22 as stated: in a run, each additive total of the weekly summary is the
\* sum of that measure over the SKU records built from the same POS table.
C22_AsStated ==
    SummaryBuilt
      => \A f \in LwMeasureFields :
            weekly_summary[f] = FieldTotal(sku_master, LAMBDA r : r[f])

\* C23 as stated: in a run, each additive measure of a fineline record is the
\* sum of that measure over the SKU records carrying that fineline code, and
\* every fineline code carried by a SKU record has a fineline record.
C23_AsStated ==
    FinelineBuiltInRun
      => /\ \A rec \in Recs(fineline_rollup) : \A f \in AllMeasureFields :
               rec[f] = FieldTotal(SelectSeq(sku_master,
                                             LAMBDA r : r.fineline = rec.fineline),
                                   LAMBDA r : r[f])
         /\ \A r \in Recs(sku_master) :
               r.fineline \notin {NaNKey, ""}
                 => \E rec \in Recs(fineline_rollup) : rec.fineline = r.fineline

\* C28 as stated: once load_pos_data and load_ladder_data have returned
\* without error in run(), pos_lw, pos_ytd and ladder are set, and the
\* 'must be loaded' guard of build_sku_master never ends a run.
C28_AsStated ==
    /\ (called = "load_ladder_data" /\ err = NoErr)
          => pos_lw # None /\ pos_ytd # None /\ ladder # None
    /\ err.kind # "RuntimeError"

\* the number of SKU records carrying the tier t
TierCount(t) == Len(SelectSeq(sku_master, LAMBDA r : r.tier = t))

\* C29 as stated: after build_meta in a run, the three tier counts of
\* meta.metrics are the numbers of sku_master records carrying each tier.
C29_AsStated ==
    (called = "build_meta" /\ err = NoErr)
      => /\ meta.metrics.tier_a_count = TierCount("A")
         /\ meta.metrics.tier_b_count = TierCount("B")
         /\ meta.metrics.tier_c_count = TierCount("C")

\* C30 as stated: after any sequence of enrichments of the same SKU list every
\* record has a size_analysis block iff it has a prime_items list, and with a
\* size_analysis block store_count = size_analysis.total_stores and
\* size_analysis.total_prime_items = len(prime_items).
C30_AsStated ==
    pc \in {"enriched", "enriched_again"}
      => \A r \in Recs(sku_master) :
            /\ "size_analysis" \in DOMAIN r <=> "prime_items" \in DOMAIN r
            /\ "size_analysis" \in DOMAIN r
                  => /\ r.store_count = r.size_analysis.total_stores
                     /\ r.size_analysis.total_prime_items = Len(r.prime_items)

\* generate_weekly_insights has returned
InsightsReturned == pc = "returned" /\ called = "generate_weekly_insights"

\* the rows of a category as the docstring counts them: every row is Modular
\* when the frame has no category column
RowsOfCategory(df, cat) ==
    IF CategoryCol \in df.cols THEN InCategory(df.rows, cat)
    ELSE IF cat = "modular" THEN df.rows ELSE <<>>

InsightSections ==
    {"week", "header_metrics", "big_picture", "modular_deep_dive",
     "seasonal_spotlight", "action_items"}

SameHeadwear(df) ==
    /\ CategoryCol \in df.cols
    /\ InCategory(df.rows, "modular") = df.rows
    /\ Containing(df.rows, {"HEAD", "CAP", "HAT"}) = Containing(df.rows, {"HEAD", "CAP"})

HasHeadwearCallout ==
    \E i \in DOMAIN insights.modular_deep_dive.callouts :
        insights.modular_deep_dive.callouts[i].callout = "headwear in-stock opportunity"

HasHeadwearAction ==
    \E i \in DOMAIN insights.action_items :
        insights.action_items[i].action = "Fix Headwear In-Stock"

\* C25: the headwear in-stock callout and the 'Fix Headwear In-Stock' action
\* item are both emitted when the headwear sales change is below -20% and the
\* headwear on-hand change is below the sales change, and neither is emitted
\* in every other case.
C25_AsStated ==
    InsightsReturned /\ SameHeadwear(current_week_df) /\ SameHeadwear(ly_week_df)
      => LET headwear == Containing(current_week_df.rows, {"HEAD", "CAP"})
             ly_headwear == Containing(ly_week_df.rows, {"HEAD", "CAP"})
             sales_yoy == _yoy_pct(ColumnSum(headwear, SalesDollars),
                                   PriorOrCurrent(ly_headwear, headwear, SalesDollars))
             oh_yoy == _yoy_pct(ColumnSum(headwear, OnHandUnits),
                                PriorOrCurrent(ly_headwear, headwear, OnHandUnits))
             flagged == /\ headwear # <<>>
                        /\ FracLt(sales_yoy, Whole(-20))
                        /\ FracLt(oh_yoy, sales_yoy)
         IN  /\ HasHeadwearCallout <=> flagged
             /\ HasHeadwearAction <=> flagged

\* C26: when neither frame has a category column, the modular header and the
\* modular deep-dive are computed over all rows and the seasonal figures over
\* none: seasonal sales 0, seasonal summary '' and no seasonal callouts.
C26_AsStated ==
    (/\ InsightsReturned
     /\ CategoryCol \notin current_week_df.cols
     /\ CategoryCol \notin ly_week_df.cols)
      => /\ insights.header_metrics.modular.sales
               = ColumnSum(current_week_df.rows, SalesDollars)
         /\ insights.modular_deep_dive.summary = <<>> <=> current_week_df.rows = <<>>
         /\ insights.header_metrics.seasonal.sales = 0
         /\ insights.seasonal_spotlight.summary = <<>>
         /\ insights.seasonal_spotlight.callouts = <<>>

\* C27: when the prior-year frame has no Seasonal rows, the seasonal sales
\* change of the header is 0.0, as is the one the seasonal spotlight prints.
C27_AsStated ==
    (/\ InsightsReturned
     /\ CategoryCol \in ly_week_df.cols
     /\ SeasonalOf(ly_week_df) = <<>>)
      => /\ insights.header_metrics.seasonal.sales_yoy[1] = 0
         /\ \A i \in DOMAIN insights.seasonal_spotlight.summary :
                insights.seasonal_spotlight.summary[i].sales_yoy = 0

====
